---- MODULE Spec2Model ----
(***************************************************************************)
(* jock-xp: the XP scoring function (supabase/functions/xp-assign), the   *)
(* task lifecycle driven by the TaskManager component, and the xp_ledger  *)
(* / users_xp tables it writes and reads.                                  *)
(*                                                                         *)
(* Part I  (Spec):       TaskManager sessions against the shared store.    *)
(* Part II (SpecAssign): one xp-assign request, from request to response;  *)
(*         (SpecXP):     one call of computeXP.                            *)
(* Part III (SpecCreate): onCreate of the TaskManager.                     *)
(* Part IV (SpecReact, SpecRate, SpecPair): the Reactions widgets.         *)
(* Part V  (SpecBoard):  the pages of the LeaderboardCard.                 *)
(* Part VI (SpecRecent): the pages of RecentActivity.                      *)
(***************************************************************************)
EXTENDS Integers, Sequences, FiniteSets, TLC

(***************************************************************************)
(* Part I -- task lifecycle and ledger                                     *)
(***************************************************************************)

\* bounds of the model
MaxNow == 1
MaxLedger == 3

Users == {"u1", "u2"}
Sessions == {"s1", "s2"}
TaskIds == {"t1", "t2"}

\* the rows of the tasks table at the start: one task per user
TaskOwner == [t \in TaskIds |-> IF t = "t1" THEN "u1" ELSE "u2"]
TaskXp == [t \in TaskIds |-> IF t = "t1" THEN 40 ELSE 7]
TaskDue == [t \in TaskIds |-> 0]

VARIABLES
    now,        \* the store's clock
    tasks,      \* table tasks: id -> row
    xp_ledger,  \* table xp_ledger, in insertion order
    users_xp,   \* relation users_xp: user_id -> xp
    session,    \* per browser session: the signed-in user id, or "null"
    loadpc,     \* per session: position of the load effect
    uiTasks,    \* per session: the component's `tasks` state (id -> status)
    error,      \* per session: the component's `error` state
    attempt,    \* per session and task: position of onCompleteWithPhoto
    proofs      \* bucket task-proofs: the paths uploaded

taskVars == <<now, tasks, xp_ledger, users_xp, session, loadpc, uiTasks, error, attempt,
              proofs>>

VARIABLES
    profile,    \* which build of xp-assign serves: "signed" or "nonneg"
    request,    \* the request body
    oracle,     \* the environment of the request: the API key and what the
                \* chat-completions call will answer
    fetched,    \* whether the chat-completions endpoint was called
    factors,    \* the handler's `factors` / the argument of computeXP
    xp,         \* the value computeXP returned
    response,   \* the Response returned
    spc         \* position of the request

scoreVars == <<profile, request, oracle, fetched, factors, xp, response, spc>>

VARIABLES
    cuser,      \* onCreate: session.user.id of the page with the form
    cform,      \* the form's fields
    cpc,        \* position of onCreate: "form", "invoke" or "insert"
    creply,     \* what functions.invoke came back with
    creating,   \* the flag that disables the submit button
    cerror,     \* the error shown
    lastXP,     \* "Assigned XP" shown under the form
    cxp,        \* onCreate's local xp
    newTasks    \* the rows onCreate inserted into the table tasks, newest first

createVars == <<cuser, cform, cpc, creply, creating, cerror, lastXP, cxp, newTasks>>

VARIABLES
    clock,         \* Date.now() of the browser, in ms
    xp_reactions,  \* table xp_reactions: the vote rows
    userId,        \* per widget: the signed-in user, "null" until getUser answers
    myVote,        \* per widget: the vote shown as pressed
    sum,           \* per widget: the summary shown
    busy,          \* per widget: a vote write is in progress
    changesRef,    \* per widget: the times of the recent accepted changes
    vote,          \* per widget: position of setVote and the value it writes
    channel,       \* per widget: change notifications not yet handled
    sumReq,        \* per widget: summary requests the store has not answered
    sumResp,       \* per widget: summary answers on their way to the widget
    voteReq,       \* per widget: own-vote requests the store has not answered
    voteResp,      \* per widget: own-vote answers on their way to the widget
    accepted,      \* per widget: the times of all accepted changes (history)
    dropped,       \* how many calls of setVote returned without a change (history)
    floored,       \* applyOptimistic took a vote back from a counter of 0 (history)
    clicks,        \* how many more votes the users will cast
    faults         \* how many more requests to the store will fail

reactVars == <<clock, xp_reactions, userId, myVote, sum, busy, changesRef, vote, channel,
               sumReq, sumResp, voteReq, voteResp, accepted, dropped, floored, clicks,
               faults>>

VARIABLES
    bmounted,   \* LeaderboardCard: the component is mounted
    blimit,     \* the prop limit
    bpage,      \* state page
    brows,      \* state rows
    btotal,     \* state total
    bprofiles,  \* state profiles: the ids it has a profile for
    berr,       \* state err is set
    bloading,   \* state loading
    breqs,      \* the runs of the fetch effect that are awaiting an answer
    bflips      \* how many more times the page or the limit will be changed

boardVars == <<bmounted, blimit, bpage, brows, btotal, bprofiles, berr, bloading, breqs,
               bflips>>

VARIABLES
    rledger,    \* RecentActivity: how many rows xp_ledger_view has, oldest first
    rpage,      \* state page
    ritems,     \* state items: the rows shown, by their number
    rtotal,     \* state total
    rerror,     \* state error is set
    rloading,   \* state loading
    rreqs,      \* the calls of fetchPage that are awaiting their answer
    rchannel,   \* INSERT notifications not yet handled
    rflips      \* how many more times the user will press Prev or Next

recentVars == <<rledger, rpage, ritems, rtotal, rerror, rloading, rreqs, rchannel, rflips>>

notTask == <<scoreVars, createVars, reactVars, boardVars, recentVars>>
notScore == <<taskVars, createVars, reactVars, boardVars, recentVars>>
notCreate == <<taskVars, scoreVars, reactVars, boardVars, recentVars>>
notReact == <<taskVars, scoreVars, createVars, boardVars, recentVars>>
notBoard == <<taskVars, scoreVars, createVars, reactVars, recentVars>>
notRecent == <<taskVars, scoreVars, createVars, reactVars, boardVars>>
vars == <<taskVars, scoreVars, createVars, reactVars, boardVars, recentVars>>

Idle == [pc |-> "idle", task |-> "none"]

TaskInit ==
    /\ now = 0
    /\ tasks = [t \in TaskIds |->
                  [owner_id |-> TaskOwner[t], due_at |-> TaskDue[t],
                   xp_assigned |-> TaskXp[t], status |-> "open"]]
    /\ xp_ledger = <<>>
    /\ users_xp = [u \in Users |-> 0]
    /\ session = [s \in Sessions |-> "null"]
    /\ loadpc = [s \in Sessions |-> "idle"]
    /\ uiTasks = [s \in Sessions |-> [t \in TaskIds |-> "none"]]
    /\ error = [s \in Sessions |-> "null"]
    /\ attempt = [s \in Sessions |-> [t \in TaskIds |-> Idle]]
    /\ proofs = {}

\* ---- the store ----------------------------------------------------------

\* Math.ceil(xp_assigned / 2)
PenaltyOf(xp_assigned) == (xp_assigned + 1) \div 2

CompletionEntry(u, t, xp_assigned) ==
    [user_id |-> u, task_id |-> t, delta |-> xp_assigned, reason |-> "task completed",
     proof_url |-> <<u, t>>]

PenaltyEntry(u, t, xp_assigned) ==
    [user_id |-> u, task_id |-> t, delta |-> 0 - PenaltyOf(xp_assigned), reason |-> "missed",
     proof_url |-> <<>>]

\* users_xp after the rows of seq were appended to xp_ledger
RECURSIVE Credit(_, _)
Credit(bal, seq) ==
    IF seq = <<>> THEN bal
    ELSE Credit([bal EXCEPT ![Head(seq).user_id] = @ + Head(seq).delta], Tail(seq))

\* an INSERT of rows into xp_ledger: the rows are appended, users_xp follows
LedgerInsert(rows) ==
    /\ xp_ledger' = xp_ledger \o rows
    /\ users_xp' = Credit(users_xp, rows)

\* variant of the overdue test that forgets the status
OverdueAnyStatus(u) ==
    {t \in TaskIds : /\ tasks[t].owner_id = u
                     /\ tasks[t].due_at < now}

Overdue(u) ==
    {t \in TaskIds : /\ tasks[t].owner_id = u
                     /\ tasks[t].status = "open"
                     /\ tasks[t].due_at < now}

RECURSIVE PenaltyRows(_)
PenaltyRows(S) ==
    IF S = {} THEN <<>>
    ELSE LET t == CHOOSE x \in S : TRUE
         IN <<PenaltyEntry(tasks[t].owner_id, t, tasks[t].xp_assigned)>>
              \o PenaltyRows(S \ {t})

\* rpc penalize_my_overdue, run for user u
penalize_my_overdue(u) ==
    /\ tasks' = [t \in TaskIds |->
                   IF t \in Overdue(u) THEN [tasks[t] EXCEPT !.status = "missed"]
                   ELSE tasks[t]]
    /\ LedgerInsert(PenaltyRows(Overdue(u)))

\* rpc complete_task_with_proof, run for user u on an open task of u's
complete_task_with_proof(u, t) ==
    /\ tasks' = [tasks EXCEPT ![t].status = "completed"]
    /\ LedgerInsert(<<CompletionEntry(u, t, tasks[t].xp_assigned)>>)

\* ---- the environment -----------------------------------------------------

Tick ==
    /\ now < MaxNow
    /\ now' = now + 1
    /\ UNCHANGED <<tasks, xp_ledger, users_xp, session, loadpc, uiTasks, error, attempt, proofs, notTask>>

\* ---- TaskManager ---------------------------------------------------------

\* getSession resolves: the session is set and the load effect starts
GetSession(s, u) ==
    /\ session[s] = "null"
    /\ session' = [session EXCEPT ![s] = u]
    /\ loadpc' = [loadpc EXCEPT ![s] = "penalize"]
    /\ error' = [error EXCEPT ![s] = "null"]
    /\ UNCHANGED <<now, tasks, xp_ledger, users_xp, uiTasks, attempt, proofs, notTask>>

\* load effect, first await: penalize_my_overdue succeeded
LoadPenalizeOk(s) ==
    /\ loadpc[s] = "penalize"
    /\ Len(xp_ledger) + Cardinality(Overdue(session[s])) <= MaxLedger
    /\ penalize_my_overdue(session[s])
    /\ loadpc' = [loadpc EXCEPT ![s] = "select"]
    /\ UNCHANGED <<now, session, uiTasks, error, attempt, proofs, notTask>>

\* load effect, first await: the rpc is missing or failed; the result is ignored
LoadPenalizeErr(s) ==
    /\ loadpc[s] = "penalize"
    /\ loadpc' = [loadpc EXCEPT ![s] = "select"]
    /\ UNCHANGED <<now, tasks, xp_ledger, users_xp, session, uiTasks, error, attempt, proofs, notTask>>

\* load effect, second await: the user's rows replace the component's tasks
LoadSelectOk(s) ==
    /\ loadpc[s] = "select"
    /\ uiTasks' = [uiTasks EXCEPT ![s] =
                     [t \in TaskIds |-> IF tasks[t].owner_id = session[s]
                                        THEN tasks[t].status ELSE "none"]]
    /\ loadpc' = [loadpc EXCEPT ![s] = "done"]
    /\ UNCHANGED <<now, tasks, xp_ledger, users_xp, session, error, attempt, proofs, notTask>>

LoadSelectErr(s) ==
    /\ loadpc[s] = "select"
    /\ uiTasks' = [uiTasks EXCEPT ![s] = [t \in TaskIds |-> "none"]]
    /\ error' = [error EXCEPT ![s] = "load"]
    /\ loadpc' = [loadpc EXCEPT ![s] = "done"]
    /\ UNCHANGED <<now, tasks, xp_ledger, users_xp, session, attempt, proofs, notTask>>

\* the Proof button of an open task's card: onCompleteWithPhoto starts and
\* awaits the upload of the photo
PickFile(s, t) ==
    /\ session[s] # "null"
    /\ uiTasks[s][t] = "open"
    /\ attempt[s][t].pc = "idle"
    /\ attempt' = [attempt EXCEPT ![s][t] = [pc |-> "upload", task |-> uiTasks[s][t]]]
    /\ UNCHANGED <<now, tasks, xp_ledger, users_xp, session, loadpc, uiTasks, error, proofs, notTask>>

\* the path the photo is uploaded to and the row's proof_url is made of
ProofPath(s, t) == <<session[s], t>>

\* variant of the catch block that reports the error and leaves the card as it is
RevertKeepsFlip(s, t, msg) ==
    /\ uiTasks' = uiTasks
    /\ error' = [error EXCEPT ![s] = msg]
    /\ attempt' = [attempt EXCEPT ![s][t] = Idle]

\* the catch block: the card gets the row of the click back, the error is shown
Revert(s, t, msg) ==
    /\ uiTasks' = [uiTasks EXCEPT ![s][t] =
                     IF @ = "none" THEN "none" ELSE attempt[s][t].task]
    /\ error' = [error EXCEPT ![s] = msg]
    /\ attempt' = [attempt EXCEPT ![s][t] = Idle]

\* variant of the upload step that does not look at the upload's error
UploadErrIgnored(s, t) ==
    /\ attempt[s][t].pc = "upload"
    /\ uiTasks' = [uiTasks EXCEPT ![s][t] = IF @ = "none" THEN "none" ELSE "completed"]
    /\ attempt' = [attempt EXCEPT ![s][t].pc = "rpc"]
    /\ UNCHANGED <<now, tasks, xp_ledger, users_xp, session, loadpc, error, proofs, notTask>>

UploadErr(s, t) ==
    /\ attempt[s][t].pc = "upload"
    /\ Revert(s, t, "upload")
    /\ UNCHANGED <<now, tasks, xp_ledger, users_xp, session, loadpc, proofs, notTask>>

\* the upload succeeded: optimistic flip, then the rpc is awaited
UploadOk(s, t) ==
    /\ attempt[s][t].pc = "upload"
    /\ uiTasks' = [uiTasks EXCEPT ![s][t] = IF @ = "none" THEN "none" ELSE "completed"]
    /\ attempt' = [attempt EXCEPT ![s][t].pc = "rpc"]
    /\ proofs' = proofs \cup {ProofPath(s, t)}
    /\ UNCHANGED <<now, tasks, xp_ledger, users_xp, session, loadpc, error, notTask>>

\* complete_task_with_proof returns without error: it completed the open task,
\* or found the task resolved already and did nothing
RpcOk(s, t) ==
    /\ attempt[s][t].pc = "rpc"
    /\ IF tasks[t].status = "open"
       THEN /\ Len(xp_ledger) < MaxLedger
            /\ complete_task_with_proof(session[s], t)
       ELSE UNCHANGED <<tasks, xp_ledger, users_xp>>
    /\ attempt' = [attempt EXCEPT ![s][t] = Idle]
    /\ UNCHANGED <<now, session, loadpc, uiTasks, error, proofs, notTask>>

\* complete_task_with_proof returns an error (no such rpc, a failed call, or a
\* rejected one): the client goes on to its fallback path
RpcErr(s, t) ==
    /\ attempt[s][t].pc = "rpc"
    /\ attempt' = [attempt EXCEPT ![s][t].pc = "update"]
    /\ UNCHANGED <<now, tasks, xp_ledger, users_xp, session, loadpc, uiTasks, error, proofs, notTask>>

\* fallback: update tasks set status = 'completed' where id = task.id
FallbackUpdateOk(s, t) ==
    /\ attempt[s][t].pc = "update"
    /\ tasks' = [tasks EXCEPT ![t].status = "completed"]
    /\ attempt' = [attempt EXCEPT ![s][t].pc = "insert"]
    /\ UNCHANGED <<now, xp_ledger, users_xp, session, loadpc, uiTasks, error, proofs, notTask>>

FallbackUpdateErr(s, t) ==
    /\ attempt[s][t].pc = "update"
    /\ Revert(s, t, "update")
    /\ UNCHANGED <<now, tasks, xp_ledger, users_xp, session, loadpc, proofs, notTask>>

\* variant of the fallback insert that also adds the delta to the user's balance
FallbackInsertBumpsBalance(s, t) ==
    /\ attempt[s][t].pc = "insert"
    /\ Len(xp_ledger) < MaxLedger
    /\ xp_ledger' = Append(xp_ledger, CompletionEntry(session[s], t, tasks[t].xp_assigned))
    /\ users_xp' = [Credit(users_xp, <<CompletionEntry(session[s], t, tasks[t].xp_assigned)>>)
                      EXCEPT ![session[s]] = @ + tasks[t].xp_assigned]
    /\ attempt' = [attempt EXCEPT ![s][t] = Idle]
    /\ UNCHANGED <<now, tasks, session, loadpc, uiTasks, error, proofs, notTask>>

\* variant of the fallback insert written as an upsert on task_id: the task's
\* latest row is replaced by the new one
FallbackInsertUpserts(s, t) ==
    /\ attempt[s][t].pc = "insert"
    /\ Len(xp_ledger) < MaxLedger
    /\ LET row == CompletionEntry(session[s], t, tasks[t].xp_assigned)
           old == {i \in 1..Len(xp_ledger) : xp_ledger[i].task_id = t}
       IN IF old = {}
          THEN LedgerInsert(<<row>>)
          ELSE LET k == CHOOSE i \in old : \A j \in old : j <= i
               IN /\ xp_ledger' = [xp_ledger EXCEPT ![k] = row]
                  /\ users_xp' = [users_xp EXCEPT ![xp_ledger[k].user_id] =
                                    @ - xp_ledger[k].delta + row.delta]
    /\ attempt' = [attempt EXCEPT ![s][t] = Idle]
    /\ UNCHANGED <<now, tasks, session, loadpc, uiTasks, error, proofs, notTask>>

\* fallback: insert into xp_ledger, delta = task.xp_assigned of the clicked row
FallbackInsertOk(s, t) ==
    /\ attempt[s][t].pc = "insert"
    /\ Len(xp_ledger) < MaxLedger
    /\ LedgerInsert(<<CompletionEntry(session[s], t, tasks[t].xp_assigned)>>)
    /\ attempt' = [attempt EXCEPT ![s][t] = Idle]
    /\ UNCHANGED <<now, tasks, session, loadpc, uiTasks, error, proofs, notTask>>

FallbackInsertErr(s, t) ==
    /\ attempt[s][t].pc = "insert"
    /\ Revert(s, t, "insert")
    /\ UNCHANGED <<now, tasks, xp_ledger, users_xp, session, loadpc, proofs, notTask>>

\* the page is reloaded: the component is constructed anew and whatever the
\* old page was awaiting is abandoned
Reload(s) ==
    /\ session[s] # "null"
    /\ session' = [session EXCEPT ![s] = "null"]
    /\ loadpc' = [loadpc EXCEPT ![s] = "idle"]
    /\ uiTasks' = [uiTasks EXCEPT ![s] = [t \in TaskIds |-> "none"]]
    /\ error' = [error EXCEPT ![s] = "null"]
    /\ attempt' = [attempt EXCEPT ![s] = [t \in TaskIds |-> Idle]]
    /\ UNCHANGED <<now, tasks, xp_ledger, users_xp, proofs, notTask>>

Next ==
    \/ Tick
    \/ \E s \in Sessions, u \in Users : GetSession(s, u)
    \/ \E s \in Sessions : LoadPenalizeOk(s)
    \/ \E s \in Sessions : LoadPenalizeErr(s)
    \/ \E s \in Sessions : LoadSelectOk(s)
    \/ \E s \in Sessions : LoadSelectErr(s)
    \/ \E s \in Sessions, t \in TaskIds : PickFile(s, t)
    \/ \E s \in Sessions, t \in TaskIds : UploadOk(s, t)
    \/ \E s \in Sessions, t \in TaskIds : UploadErr(s, t)
    \/ \E s \in Sessions, t \in TaskIds : RpcOk(s, t)
    \/ \E s \in Sessions, t \in TaskIds : RpcErr(s, t)
    \/ \E s \in Sessions, t \in TaskIds : FallbackUpdateOk(s, t)
    \/ \E s \in Sessions, t \in TaskIds : FallbackUpdateErr(s, t)
    \/ \E s \in Sessions, t \in TaskIds : FallbackInsertOk(s, t)
    \/ \E s \in Sessions, t \in TaskIds : FallbackInsertErr(s, t)
    \/ \E s \in Sessions : Reload(s)

\* ---- properties of Part I ---------------------------------------------------

Completions(t) ==
    {i \in 1..Len(xp_ledger) :
        xp_ledger[i].task_id = t /\ xp_ledger[i].reason = "task completed"}

Penalties(t) ==
    {i \in 1..Len(xp_ledger) :
        xp_ledger[i].task_id = t /\ xp_ledger[i].reason = "missed"}

NoAttemptInFlight == \A s \in Sessions, t \in TaskIds : attempt[s][t].pc = "idle"

\* C1: once a completion attempt has failed (and none is in flight), no task
\* is stored as completed without a completion entry in the ledger.
C1_FailedCompletionLeavesNoStatus ==
    (NoAttemptInFlight /\ \E s \in Sessions : error[s] \in {"upload", "update", "insert"})
        => \A t \in TaskIds : tasks[t].status = "completed" => Completions(t) # {}

\* C2: a task has at most one completion entry in the ledger, whatever the
\* number of completion attempts and whichever path they take.
C2_AtMostOneCompletionEntry ==
    \A t \in TaskIds : Cardinality(Completions(t)) <= 1

\* C3: the ledger never holds both a completion entry and a missed-penalty
\* entry for the same task.
C3_CompletedOrMissedNotBoth ==
    \A t \in TaskIds : ~(Completions(t) # {} /\ Penalties(t) # {})

\* C4: a stored status of completed or missed never changes again.
C4_TerminalStatusStable ==
    [][\A t \in TaskIds :
          tasks[t].status \in {"completed", "missed"}
              => tasks'[t].status = tasks[t].status]_vars

\* C5: the overdue check gives a task at most one penalty entry, exactly one
\* once it has made the task missed, and a run of it changes neither the row
\* nor the ledger entries of a task that is not open.
C5_OverdueCheckIdempotent ==
    /\ [](\A t \in TaskIds :
            /\ Cardinality(Penalties(t)) <= 1
            /\ tasks[t].status = "missed" => Cardinality(Penalties(t)) = 1)
    /\ [][\A s \in Sessions :
            (loadpc[s] = "penalize" /\ loadpc'[s] = "select")
                => \A t \in TaskIds :
                      /\ tasks[t].status # "open"
                            => /\ tasks'[t] = tasks[t]
                               /\ Penalties(t)' = Penalties(t)
                               /\ Completions(t)' = Completions(t)
                      /\ (tasks[t].status = "open" /\ tasks'[t].status = "missed")
                            => /\ Penalties(t) = {}
                               /\ Cardinality(Penalties(t)') = 1
                               /\ tasks[t].due_at < now]_vars

\* the overdue check is about to run again for the owner of a task it has
\* already made missed
C5_Witness ==
    \E t \in TaskIds, s \in Sessions :
        /\ tasks[t].status = "missed"
        /\ Cardinality(Penalties(t)) = 1
        /\ loadpc[s] = "penalize"
        /\ session[s] = tasks[t].owner_id

RECURSIVE SumDelta(_, _)
SumDelta(seq, u) ==
    IF seq = <<>> THEN 0
    ELSE (IF Head(seq).user_id = u THEN Head(seq).delta ELSE 0) + SumDelta(Tail(seq), u)

C7_LedgerAppendOnly ==
    [][/\ Len(xp_ledger') >= Len(xp_ledger)
       /\ \A i \in 1..Len(xp_ledger) : xp_ledger'[i] = xp_ledger[i]]_vars

\* the client's insert has added an entry behind an existing one of the task
C7_Witness ==
    \E i, j \in 1..Len(xp_ledger) :
        /\ i < j
        /\ xp_ledger[i].task_id = xp_ledger[j].task_id
        /\ xp_ledger[j].reason = "task completed"

\* a step in which the completion attempt of s on t ends in the catch block
AttemptFails(s, t) ==
    /\ attempt[s][t].pc \in {"upload", "update", "insert"}
    /\ attempt'[s][t].pc = "idle"
    /\ session'[s] = session[s]
    /\ xp_ledger' = xp_ledger

\* C19: when a completion attempt fails at the upload, at the fallback update
\* or at the ledger insert, the card shows the status it had before the
\* attempt again and an error is reported.
C19_FailedAttemptReverted ==
    [][\A s \in Sessions, t \in TaskIds :
          AttemptFails(s, t)
              => /\ uiTasks'[s][t] = attempt[s][t].task
                 /\ uiTasks'[s][t] = "open"
                 /\ error'[s] # "null"]_vars

\* an attempt failed after its optimistic flip and the card is open again
C19_Witness ==
    \E s \in Sessions, t \in TaskIds :
        /\ error[s] \in {"update", "insert"}
        /\ attempt[s][t].pc = "idle"
        /\ uiTasks[s][t] = "open"
        /\ tasks[t].owner_id = session[s]

\* C20: no task is marked completed, in the store or on a card, and no
\* completion entry is in the ledger, unless the proof was uploaded before;
\* every completion entry carries the path of an uploaded proof.
C20_CompletionRequiresProof ==
    /\ \A i \in 1..Len(xp_ledger) :
          xp_ledger[i].reason = "task completed" => xp_ledger[i].proof_url \in proofs
    /\ \A t \in TaskIds :
          tasks[t].status = "completed" => <<tasks[t].owner_id, t>> \in proofs
    /\ \A s \in Sessions, t \in TaskIds :
          attempt[s][t].pc \in {"rpc", "update", "insert"} => ProofPath(s, t) \in proofs

\* a completion entry with its proof is in the ledger, and another attempt
\* stopped at a failed upload
C20_Witness ==
    /\ \E i \in 1..Len(xp_ledger) :
          /\ xp_ledger[i].reason = "task completed"
          /\ xp_ledger[i].proof_url \in proofs
    /\ \E s \in Sessions : error[s] = "upload"

(***************************************************************************)
(* Part II -- xp-assign                                                    *)
(***************************************************************************)

\* a JS number is modelled in units of 1/Scale, or is NaN
Scale == 2

Num(n) == [nan |-> FALSE, v |-> n]
Whole(k) == Num(k * Scale)
NaN == [nan |-> TRUE, v |-> 0]

Plus(a, b) == IF a.nan \/ b.nan THEN NaN ELSE Num(a.v + b.v)
\* k * a for an integer literal k
Times(k, a) == IF a.nan THEN NaN ELSE Num(k * a.v)
\* Math.min, Math.max: NaN if either argument is
MathMin(a, b) == IF a.nan \/ b.nan THEN NaN ELSE IF a.v <= b.v THEN a ELSE b
MathMax(a, b) == IF a.nan \/ b.nan THEN NaN ELSE IF a.v >= b.v THEN a ELSE b
\* Math.round: the nearest integer, halves towards +infinity
MathRound(a) == IF a.nan THEN NaN ELSE Num(((2 * a.v + Scale) \div (2 * Scale)) * Scale)
\* a < b: false when either side is NaN
Less(a, b) == ~a.nan /\ ~b.nan /\ a.v < b.v
\* a || d on numbers: d when a is 0 or NaN
OrElse(a, d) == IF a.nan \/ a.v = 0 THEN d ELSE a
\* a ?? d on numbers: a number is never null or undefined
Coalesce(a, d) == a

clamp(n, lo, hi) == MathMin(hi, MathMax(lo, n))

\* round(5 * ln(1+m) / ln(181)) for an integer m in 1..600, tabulated: the
\* value is k or more exactly when (1+m)^10 >= 181^(2k-1), that is from
\* m = 1, 4, 13, 38, 107 (k = 1..5), 304 (k = 6)
LogScore(m) ==
    IF m >= 304 THEN 6 ELSE IF m >= 107 THEN 5 ELSE IF m >= 38 THEN 4
    ELSE IF m >= 13 THEN 3 ELSE IF m >= 4 THEN 2 ELSE 1

\* variant of timeScore that takes minutes above 600 for out of range: score 0
timeScoreCutOff(minutes) ==
    LET m == clamp(MathRound(minutes), Whole(1), Whole(600))
        s == IF m.nan THEN NaN ELSE Whole(LogScore(m.v \div Scale))
    IN IF Less(Whole(600), minutes) THEN Whole(0)
       ELSE clamp(MathRound(s), Whole(0), Whole(5))

timeScore(minutes) ==
    LET m == clamp(MathRound(minutes), Whole(1), Whole(600))
        s == IF m.nan THEN NaN ELSE Whole(LogScore(m.v \div Scale))
    IN clamp(MathRound(s), Whole(0), Whole(5))

\* effort/value score of the five clamped dimensions and the time score
Base(f) ==
    LET t == timeScore(f.minutes)
        skill == clamp(f.skill, Whole(0), Whole(5))
        physical == clamp(f.physical, Whole(0), Whole(5))
        stakes == clamp(f.stakes, Whole(0), Whole(5))
        unpleasant == clamp(f.unpleasant, Whole(0), Whole(5))
        rarity == clamp(f.rarity, Whole(0), Whole(5))
    IN Plus(Times(3, t), Plus(Times(6, skill), Plus(Times(3, physical),
         Plus(Times(8, stakes), Plus(Times(2, unpleasant), Times(10, rarity))))))

\* variant of the non-negative computeXP without xp = Math.round(xp)
computeXPNonNegUnrounded(f) == clamp(Base(f), Whole(1), Whole(100))

\* computeXP of the non-negative build
computeXPNonNeg(f) ==
    LET xp0 == MathRound(Base(f))
    IN clamp(xp0, Whole(1), Whole(100))

\* variant of the signed computeXP that returns xp without the final clamp
computeXPSignedUnclamped(f) ==
    LET base == Base(f)
        virtueAdj == Times(4, clamp(f.virtue, Whole(0 - 5), Whole(5)))
        strikePenalty == Times(0 - 15, clamp(f.strike, Whole(0), Whole(3)))
        xp0 == MathRound(Plus(base, Plus(virtueAdj, strikePenalty)))
    IN IF f.is_joke /\ Less(base, Whole(20)) THEN MathMin(xp0, Whole(0 - 10)) ELSE xp0

\* computeXP of the signed build
computeXPSigned(f) ==
    LET base == Base(f)
        virtueAdj == Times(4, clamp(f.virtue, Whole(0 - 5), Whole(5)))
        strikePenalty == Times(0 - 15, clamp(f.strike, Whole(0), Whole(3)))
        xp0 == MathRound(Plus(base, Plus(virtueAdj, strikePenalty)))
        xp1 == IF f.is_joke /\ Less(base, Whole(20)) THEN MathMin(xp0, Whole(0 - 10)) ELSE xp0
    IN clamp(xp1, Whole(0 - 50), Whole(100))

computeXP(p, f) == IF p = "signed" THEN computeXPSigned(f) ELSE computeXPNonNeg(f)

\* ---- the request handler ---------------------------------------------------

\* values of a field of the parsed reply `js`
Undefined == [type |-> "undefined", v |-> 0]
Str == [type |-> "string", v |-> 0]          \* a non-numeric, non-empty string
Null == [type |-> "null", v |-> 0]
Number(n) == [type |-> "number", v |-> n]     \* n in units of 1/Scale
Bool(b) == [type |-> "boolean", v |-> IF b THEN 1 ELSE 0]

\* Number(x)
ToNumber(x) ==
    CASE x.type = "number" -> Num(x.v)
      [] x.type = "boolean" -> Whole(x.v)
      [] x.type = "null" -> Whole(0)
      [] OTHER -> NaN

\* Boolean(x)
ToBoolean(x) ==
    CASE x.type = "number" -> x.v # 0
      [] x.type = "boolean" -> x.v = 1
      [] x.type = "string" -> TRUE
      [] OTHER -> FALSE

\* "Defaults if model call fails"
DefaultFactors ==
    [minutes |-> Whole(10), skill |-> Whole(1), physical |-> Whole(0), stakes |-> Whole(0),
     unpleasant |-> Whole(0), rarity |-> Whole(0), virtue |-> Whole(0), strike |-> Whole(0),
     is_joke |-> FALSE]

\* factors = {...} of the signed build
ParseSigned(js) ==
    [minutes |-> OrElse(ToNumber(js.minutes), Whole(10)),
     skill |-> OrElse(ToNumber(js.skill), Whole(0)),
     physical |-> OrElse(ToNumber(js.physical), Whole(0)),
     stakes |-> OrElse(ToNumber(js.stakes), Whole(0)),
     unpleasant |-> OrElse(ToNumber(js.unpleasant), Whole(0)),
     rarity |-> OrElse(ToNumber(js.rarity), Whole(0)),
     virtue |-> Coalesce(ToNumber(js.virtue), Whole(0)),
     strike |-> Coalesce(ToNumber(js.strike), Whole(0)),
     is_joke |-> ToBoolean(js.is_joke)]

\* factors = {...} of the non-negative build (no virtue, strike, is_joke)
ParseNonNeg(js) ==
    [minutes |-> OrElse(ToNumber(js.minutes), Whole(10)),
     skill |-> OrElse(ToNumber(js.skill), Whole(0)),
     physical |-> OrElse(ToNumber(js.physical), Whole(0)),
     stakes |-> OrElse(ToNumber(js.stakes), Whole(0)),
     unpleasant |-> OrElse(ToNumber(js.unpleasant), Whole(0)),
     rarity |-> OrElse(ToNumber(js.rarity), Whole(0)),
     virtue |-> Whole(0), strike |-> Whole(0), is_joke |-> FALSE]

ParseFactors(p, js) == IF p = "signed" THEN ParseSigned(js) ELSE ParseNonNeg(js)

NoResponse == [status |-> 0, error |-> FALSE, xp |-> NaN]
\* JSON.stringify({xp, ...}): a NaN xp is written as null
OkResponse(x) == [status |-> 200, error |-> FALSE, xp |-> x]
ErrorResponse(code) == [status |-> code, error |-> TRUE, xp |-> NaN]

\* variant of the handler without the title check: an empty title is scored
\* like any other
ServeMissingTitleScored ==
    /\ spc = "received"
    /\ request.title = ""
    /\ ~oracle.key \/ oracle.kind \in {"non2xx", "ok"}
    /\ fetched' = oracle.key
    /\ LET f == IF oracle.key /\ oracle.kind = "ok"
                THEN ParseFactors(profile, oracle.js) ELSE DefaultFactors
       IN /\ factors' = f
          /\ xp' = computeXP(profile, f)
          /\ response' = OkResponse(computeXP(profile, f))
    /\ spc' = "done"
    /\ UNCHANGED <<profile, request, oracle, notScore>>

\* !title (a title that is absent, null or "" is the request's title ""): the
\* handler returns before it reads the key or calls the model
ServeMissingTitle ==
    /\ spc = "received"
    /\ request.title = ""
    /\ response' = ErrorResponse(400)
    /\ spc' = "done"
    /\ UNCHANGED <<profile, request, oracle, fetched, factors, xp, notScore>>

\* fetch rejects, r.json() or JSON.parse throws: the outer catch answers
ServeThrow ==
    /\ spc = "received"
    /\ request.title # ""
    /\ oracle.key
    /\ oracle.kind \in {"unreachable", "badjson"}
    /\ fetched' = TRUE
    /\ response' = ErrorResponse(500)
    /\ spc' = "done"
    /\ UNCHANGED <<profile, request, oracle, factors, xp, notScore>>

\* no key, a non-2xx answer, or a parsed reply: computeXP(factors) is returned
ServeScored ==
    /\ spc = "received"
    /\ request.title # ""
    /\ ~oracle.key \/ oracle.kind \in {"non2xx", "ok"}
    /\ fetched' = oracle.key
    /\ LET f == IF oracle.key /\ oracle.kind = "ok"
                THEN ParseFactors(profile, oracle.js) ELSE DefaultFactors
       IN /\ factors' = f
          /\ xp' = computeXP(profile, f)
          /\ response' = OkResponse(computeXP(profile, f))
    /\ spc' = "done"
    /\ UNCHANGED <<profile, request, oracle, notScore>>

\* a direct call computeXP(factors)
CallComputeXP ==
    /\ spc = "call"
    /\ xp' = computeXP(profile, factors)
    /\ spc' = "returned"
    /\ UNCHANGED <<profile, request, oracle, fetched, factors, response, notScore>>

\* ---- inputs ---------------------------------------------------------------

Profiles == {"signed", "nonneg"}

\* sample values of a 0..5 factor, of minutes, virtue and strike (all in and
\* out of range, whole and fractional)
DimValues == {Num(0 - Scale), Whole(0), Num(5), Num(5 * Scale + 1)}
MinuteValues == {Whole(0 - 3), Whole(0), Num(1), Whole(3), Whole(120), Whole(600), Whole(10000)}
VirtueValues == {Whole(0 - 6), Num(0 - 5), Whole(0), Whole(7)}
StrikeValues == {Whole(0 - 1), Whole(0), Num(3), Whole(4)}

FactorSpace(p) ==
    [minutes : MinuteValues, skill : DimValues, physical : DimValues,
     stakes : DimValues, unpleasant : DimValues, rarity : DimValues,
     virtue : IF p = "signed" THEN VirtueValues ELSE {Whole(0)},
     strike : IF p = "signed" THEN StrikeValues ELSE {Whole(0)},
     is_joke : IF p = "signed" THEN BOOLEAN ELSE {FALSE}]

\* two tasks with whole factors: a long, skilled, high-stakes one and a
\* three-minute trifle
ExampleFactors ==
    {[minutes |-> Whole(120), skill |-> Whole(3), physical |-> Whole(0),
      stakes |-> Whole(4), unpleasant |-> Whole(1), rarity |-> Whole(2),
      virtue |-> Whole(0), strike |-> Whole(0), is_joke |-> FALSE],
     [minutes |-> Whole(3), skill |-> Whole(0), physical |-> Whole(0),
      stakes |-> Whole(0), unpleasant |-> Whole(0), rarity |-> Whole(0),
      virtue |-> Whole(0), strike |-> Whole(0), is_joke |-> FALSE]}

EmptyJs ==
    [minutes |-> Undefined, skill |-> Undefined, physical |-> Undefined,
     stakes |-> Undefined, unpleasant |-> Undefined, rarity |-> Undefined,
     virtue |-> Undefined, strike |-> Undefined, is_joke |-> Undefined]

\* sample replies: every field present and numeric, absent, or non-numeric
JsDim == {Undefined, Str, Number(3 * Scale)}
JsSpace(p) ==
    [minutes : {Undefined, Str, Number(0), Number(120 * Scale)},
     skill : JsDim, physical : JsDim, stakes : JsDim, unpleasant : JsDim,
     rarity : {Undefined, Str, Null, Number(2 * Scale)},
     virtue : IF p = "signed" THEN {Undefined, Str, Null, Number(0 - 2 * Scale)}
              ELSE {Undefined},
     strike : IF p = "signed" THEN {Undefined, Str, Number(Scale)} ELSE {Undefined},
     is_joke : IF p = "signed" THEN {Undefined, Bool(TRUE), Bool(FALSE)}
               ELSE {Undefined}]

ScoreOff ==
    /\ profile = "signed"
    /\ request = [title |-> ""]
    /\ oracle = [key |-> FALSE, kind |-> "ok", js |-> EmptyJs]
    /\ fetched = FALSE
    /\ factors = DefaultFactors
    /\ xp = NaN
    /\ response = NoResponse
    /\ spc = "off"

\* a request arrives
AssignInit ==
    /\ profile \in Profiles
    /\ \/ /\ request \in [title : {"", "Run 5k"}]
          /\ oracle \in [key : BOOLEAN, kind : {"unreachable", "non2xx", "badjson", "ok"},
                         js : {EmptyJs}]
       \/ /\ request = [title |-> "Run 5k"]
          /\ oracle \in [key : {TRUE}, kind : {"ok"}, js : JsSpace(profile)]
    /\ fetched = FALSE
    /\ factors = DefaultFactors
    /\ xp = NaN
    /\ response = NoResponse
    /\ spc = "received"

\* computeXP is about to be called
XPInit ==
    /\ profile \in Profiles
    /\ request = [title |-> ""]
    /\ oracle = [key |-> FALSE, kind |-> "ok", js |-> EmptyJs]
    /\ fetched = FALSE
    /\ factors \in FactorSpace(profile) \cup ExampleFactors
    /\ xp = NaN
    /\ response = NoResponse
    /\ spc = "call"

\* ---- properties of Part II --------------------------------------------------

IsInteger(x) == ~x.nan /\ x.v % Scale = 0
RangeLow(p) == IF p = "signed" THEN 0 - 50 ELSE 1
InRange(p, x) == ~x.nan /\ RangeLow(p) * Scale <= x.v /\ x.v <= 100 * Scale

\* C8: for all numeric factors, in or out of their nominal ranges, computeXP
\* returns an integer in [1, 100] (non-negative build) or [-50, 100] (signed
\* build).
C8_ScoreIntegerInRange ==
    spc = "returned" => IsInteger(xp) /\ InRange(profile, xp)

\* factors below and above their ranges land on the ends of the signed range
C8_Witness ==
    /\ spc = "returned"
    /\ profile = "signed"
    /\ xp \in {Whole(0 - 50), Whole(100)}
    /\ factors.strike.v > 3 * Scale
    /\ factors.skill.v < 0

IsMissing(x) == x.type \in {"undefined", "string"}

\* C9: when the reply omits a factor field or gives a non-numeric value for
\* it, the field takes its default (minutes 10, the others 0) and the answer
\* is a 200 with a numeric xp in range.
C9_MissingFieldsDefaulted ==
    (spc = "done" /\ request.title # "" /\ oracle.key /\ oracle.kind = "ok")
        => /\ response.status = 200
           /\ ~response.error
           /\ InRange(profile, response.xp)
           /\ IsMissing(oracle.js.minutes) => factors.minutes = Whole(10)
           /\ \A k \in {"skill", "physical", "stakes", "unpleasant", "rarity",
                        "virtue", "strike"} :
                 IsMissing(oracle.js[k]) => factors[k] = Whole(0)

\* C10: when the oracle is unreachable, answers non-2xx or sends malformed
\* JSON, the answer is a 200 whose xp is computeXP of the default factors.
C10_OracleFailureDegrades ==
    (spc = "done" /\ request.title # "" /\ oracle.key
        /\ oracle.kind \in {"unreachable", "non2xx", "badjson"})
        => response = OkResponse(computeXP(profile, DefaultFactors))

\* C12: a request whose title is missing or empty is answered with an error
\* body and status 400; no score is computed for it and the model endpoint is
\* not called.
C12_MissingTitleRejected ==
    (spc = "done" /\ request.title = "")
        => /\ response = ErrorResponse(400)
           /\ response.error /\ response.status \notin 200..299
           /\ ~fetched
           /\ xp = NaN /\ response.xp = NaN

\* a request without title was answered although the key is set and the model
\* would have replied
C12_Witness ==
    /\ spc = "done" /\ request.title = ""
    /\ oracle.key /\ oracle.kind = "ok"
    /\ response.status = 400

\* C23: in the signed build, a joke whose base score is below 20 is answered
\* with a score of -10 or less, whatever virtue and strike are.
C23_JokeScoresBelowZero ==
    (/\ spc = "done" /\ profile = "signed" /\ response.status = 200
     /\ factors.is_joke /\ Less(Base(factors), Whole(20)))
        => ~response.xp.nan /\ response.xp.v <= (0 - 10) * Scale

\* minutes values on both sides of every step of the time score, ascending
MinuteSteps == <<1, 3, 4, 12, 13, 37, 38, 106, 107, 303, 304, 599, 600>>
\* one minutes value of every level of the time score, ascending, up to 600
MinuteLevels == <<1, 4, 13, 38, 107, 600>>
MinutesBeyond == {601, 10000}

\* the score of the call's factors with minutes replaced by m
XPAt(m) == computeXP(profile, [factors EXCEPT !.minutes = Whole(m)])

\* C24: with the other factors as they are, the score does not fall as
\* minutes grow from 1 to 600 (the time score over every step of its curve,
\* the score over every level of the time score and the call's own minutes),
\* and every minutes value of 600 or more scores as 600 does.
C24_MonotoneAndSaturating ==
    spc = "returned"
        => /\ \A i \in 1..(Len(MinuteSteps) - 1) :
                 timeScore(Whole(MinuteSteps[i])).v
                     <= timeScore(Whole(MinuteSteps[i + 1])).v
           /\ \A i \in 1..(Len(MinuteLevels) - 1) :
                 XPAt(MinuteLevels[i]).v <= XPAt(MinuteLevels[i + 1]).v
           /\ \A i \in 1..Len(MinuteLevels) :
                 Less(Whole(0), factors.minutes)
                     => IF factors.minutes.v <= MinuteLevels[i] * Scale
                        THEN xp.v <= XPAt(MinuteLevels[i]).v
                        ELSE xp.v >= XPAt(MinuteLevels[i]).v
           /\ \A m \in MinutesBeyond : XPAt(m) = XPAt(600)
           /\ factors.minutes.v >= 600 * Scale => xp = XPAt(600)

\* a call with 10000 minutes scored as 600 minutes do, and more than 1 minute
\* does
C24_Witness ==
    /\ spc = "returned"
    /\ factors.minutes = Whole(10000)
    /\ xp = XPAt(600)
    /\ XPAt(1).v < xp.v

\* the formula of the score on plain integers, in units of 1/Scale
ClampInt(n, lo, hi) == IF n < lo THEN lo ELSE IF n > hi THEN hi ELSE n
RoundInt(n) == ((2 * n + Scale) \div (2 * Scale)) * Scale
TimeOf(minutes) ==
    ClampInt(LogScore(ClampInt(RoundInt(minutes), Scale, 600 * Scale) \div Scale), 0, 5)
WeightedSum(f) ==
    3 * TimeOf(f.minutes.v) * Scale
        + 6 * ClampInt(f.skill.v, 0, 5 * Scale)
        + 3 * ClampInt(f.physical.v, 0, 5 * Scale)
        + 8 * ClampInt(f.stakes.v, 0, 5 * Scale)
        + 2 * ClampInt(f.unpleasant.v, 0, 5 * Scale)
        + 10 * ClampInt(f.rarity.v, 0, 5 * Scale)

\* the two example tasks score within 70..90 and within 1..3
ExamplesInBand ==
    /\ (factors.minutes = Whole(120) /\ factors \in ExampleFactors)
          => 70 * Scale <= xp.v /\ xp.v <= 90 * Scale
    /\ (factors.minutes = Whole(3) /\ factors \in ExampleFactors)
          => 1 * Scale <= xp.v /\ xp.v <= 3 * Scale

\* C25 as stated: the non-negative score is the weighted sum of the clamped
\* factors, clamped to [1, 100]; the two example tasks score within 70..90
\* and within 1..3.
C25_ScoreIsClampedSum ==
    (spc = "returned" /\ profile = "nonneg")
        => /\ ~xp.nan
           /\ xp.v = ClampInt(WeightedSum(factors), Scale, 100 * Scale)
           /\ ExamplesInBand

\* C25 amended: the non-negative score is the weighted sum of the clamped
\* factors, rounded to the nearest integer and then clamped to [1, 100], with
\* the time score taken of the rounded minutes; the two example tasks score
\* within 70..90 and within 1..3.
C25_ScoreIsRoundedClampedSum ==
    (spc = "returned" /\ profile = "nonneg")
        => /\ ~xp.nan
           /\ xp.v = ClampInt(RoundInt(WeightedSum(factors)), Scale, 100 * Scale)
           /\ ExamplesInBand

\* the long, skilled, high-stakes example was scored: 87
C25_Witness ==
    /\ spc = "returned" /\ profile = "nonneg"
    /\ factors \in ExampleFactors /\ factors.minutes = Whole(120)
    /\ xp = Whole(87)

\* ---- missed tasks whose XP the signed build assigned -----------------------

\* what xp-assign was asked to score for the task t1: the two example tasks,
\* the trifle told as a joke, the trifle with the hardest strike, and a
\* skilled four minutes with strike 2
ScoredFactors ==
    ExampleFactors
      \cup {[minutes |-> Whole(3), skill |-> Whole(0), physical |-> Whole(0),
             stakes |-> Whole(0), unpleasant |-> Whole(0), rarity |-> Whole(0),
             virtue |-> Whole(0), strike |-> Whole(0), is_joke |-> TRUE],
            [minutes |-> Whole(3), skill |-> Whole(0), physical |-> Whole(0),
             stakes |-> Whole(0), unpleasant |-> Whole(0), rarity |-> Whole(0),
             virtue |-> Whole(0), strike |-> Whole(3), is_joke |-> FALSE],
            [minutes |-> Whole(4), skill |-> Whole(4), physical |-> Whole(0),
             stakes |-> Whole(0), unpleasant |-> Whole(0), rarity |-> Whole(0),
             virtue |-> Whole(0), strike |-> Whole(2), is_joke |-> FALSE]}

\* the tables at the start, the task t1 created with the XP the signed build
\* gave it
MissInit ==
    /\ now = 0
    /\ \E f \in ScoredFactors :
          tasks = [t \in TaskIds |->
                     [owner_id |-> TaskOwner[t], due_at |-> TaskDue[t],
                      xp_assigned |-> IF t = "t1" THEN computeXPSigned(f).v \div Scale
                                      ELSE TaskXp[t],
                      status |-> "open"]]
    /\ xp_ledger = <<>>
    /\ users_xp = [u \in Users |-> 0]
    /\ session = [s \in Sessions |-> "null"]
    /\ loadpc = [s \in Sessions |-> "idle"]
    /\ uiTasks = [s \in Sessions |-> [t \in TaskIds |-> "none"]]
    /\ error = [s \in Sessions |-> "null"]
    /\ attempt = [s \in Sessions |-> [t \in TaskIds |-> Idle]]
    /\ proofs = {}

\* the least integer k with 2k >= x
CeilHalf(x) == CHOOSE k \in (0 - 100)..100 : 2 * k >= x /\ 2 * (k - 1) < x

\* C21: the penalty entry of every missed task has delta = -ceil(xp_assigned / 2),
\* and that delta is negative, for every xp_assigned the signed build can assign.
C21_PenaltyIsNegativeHalf ==
    \A i \in DOMAIN xp_ledger :
        xp_ledger[i].reason = "missed"
            => /\ xp_ledger[i].delta
                    = 0 - CeilHalf(tasks[xp_ledger[i].task_id].xp_assigned)
               /\ xp_ledger[i].delta < 0

(***************************************************************************)
(* Part III -- onCreate: the form asks xp-assign for the xp and inserts    *)
(* the task                                                                *)
(***************************************************************************)

MaxCreated == 2

Titles == {"Run 5k", "Read"}

\* xp-assign's answers to a request with a title, as the handler of Part II
\* gives them: a score (NaN where computeXP returned NaN), or the 500 of its
\* catch block
ScoreReplies ==
    {OkResponse(Whole(25)), OkResponse(Whole(0 - 5)), OkResponse(Whole(0)),
     OkResponse(NaN), ErrorResponse(500)}

\* functions.invoke: no response at all (FunctionsFetchError) or a status
\* outside 2xx (FunctionsHttpError) comes back as {data: null, error}
InvokeError(r) == r.status \notin 200..299

\* data.xp of a 2xx reply: JSON.stringify wrote a NaN as null
InvokeXp(r) == IF r.xp.nan THEN Null ELSE Number(r.xp.v)

\* xpResp?.xp ?? 10
FallbackXp(x) == IF x \in {Null, Undefined} THEN Number(10 * Scale) ELSE x

\* the row the insert creates: status is the column's default
NewTask(u, title, x) ==
    [owner_id |-> u, title |-> title, xp_assigned |-> x, status |-> "open"]

\* the form is submitted
Submit(title) ==
    /\ cpc = "form"
    /\ cuser # "null"
    /\ ~creating
    /\ cform' = [title |-> title]
    /\ creating' = TRUE
    /\ cerror' = "null"
    /\ lastXP' = Null
    /\ cpc' = "invoke"
    /\ UNCHANGED <<cuser, creply, cxp, newTasks, notCreate>>

\* the catch and finally blocks of onCreate
CreateFailed(msg) ==
    /\ cerror' = msg
    /\ creating' = FALSE
    /\ cpc' = "form"

\* if (fnErr) throw fnErr
InvokeErr(r) ==
    /\ cpc = "invoke"
    /\ InvokeError(r)
    /\ creply' = r
    /\ CreateFailed("fn")
    /\ UNCHANGED <<cuser, cform, lastXP, cxp, newTasks, notCreate>>

\* a 2xx reply: xp = xpResp?.xp ?? 10, setLastXP(xp), the insert is awaited
InvokeOk(r) ==
    /\ cpc = "invoke"
    /\ ~InvokeError(r)
    /\ creply' = r
    /\ cxp' = FallbackXp(InvokeXp(r))
    /\ lastXP' = FallbackXp(InvokeXp(r))
    /\ cpc' = "insert"
    /\ UNCHANGED <<cuser, cform, creating, cerror, newTasks, notCreate>>

\* the insert returned the row: it is put in front of the list, the form is
\* reset
InsertOk ==
    /\ cpc = "insert"
    /\ Len(newTasks) < MaxCreated
    /\ newTasks' = <<NewTask(cuser, cform.title, cxp)>> \o newTasks
    /\ cform' = [title |-> ""]
    /\ creating' = FALSE
    /\ cpc' = "form"
    /\ UNCHANGED <<cuser, creply, cerror, lastXP, cxp, notCreate>>

\* if (insErr) throw insErr
InsertErr ==
    /\ cpc = "insert"
    /\ CreateFailed("insert")
    /\ UNCHANGED <<cuser, cform, creply, lastXP, cxp, newTasks, notCreate>>

CreateOff ==
    /\ cuser = "null"
    /\ cform = [title |-> ""]
    /\ creply = NoResponse
    /\ cpc = "off"
    /\ creating = FALSE
    /\ cerror = "null"
    /\ lastXP = Null
    /\ cxp = Null
    /\ newTasks = <<>>

\* the page with the form, a user signed in
CreateInit ==
    /\ cuser \in Users
    /\ cform = [title |-> ""]
    /\ creply = NoResponse
    /\ cpc = "form"
    /\ creating = FALSE
    /\ cerror = "null"
    /\ lastXP = Null
    /\ cxp = Null
    /\ newTasks = <<>>

\* ---- properties of Part III ------------------------------------------------

\* C11: when the call of the scoring function fails or returns an error, the
\* submitted task is still created, open and with the fallback xp.
C11_CreationSurvivesScoringFailure ==
    [][(cpc = "invoke" /\ cpc' # "invoke" /\ InvokeError(creply'))
          => /\ cpc' = "insert"
             /\ cxp' = Number(10 * Scale)
             /\ cerror' = "null"]_vars

(***************************************************************************)
(* Part IV -- Reactions: the vote widgets of one ledger entry and the      *)
(* table xp_reactions                                                      *)
(***************************************************************************)

\* the votes the users cast in a run
MaxVotes == 2
\* the requests to the store that fail in a run
MaxFaults == 1

Widgets == {"w1", "w2"}
ledgerId == "e1"
\* who can be signed in on the page of a widget
WidgetUsers(w) == IF w = "w1" THEN {"u1"} ELSE Users

\* the moments the browser's clock is looked at
ClockValues == {0, 1000, 1999, 2000, 3000}

RateWindow == 2000
RateMax == 2

VoteIdle == [pc |-> "idle", next |-> 0]
NoVotes == [upvotes |-> 0, downvotes |-> 0, net |-> 0]

\* ---- the store ----------------------------------------------------------------

Row(u, v) == [ledger_id |-> ledgerId, voter_id |-> u, value |-> v]
RowsOf(rows, u) == {r \in rows : r.ledger_id = ledgerId /\ r.voter_id = u}

\* variant of the upsert that inserts and never replaces
Insert(rows, u, v) == rows \cup {Row(u, v)}

\* upsert({ledger_id, voter_id, value}, {onConflict: "ledger_id,voter_id"})
Upsert(rows, u, v) == (rows \ RowsOf(rows, u)) \cup {Row(u, v)}

\* delete().eq("ledger_id", ledgerId).eq("voter_id", userId)
Delete(rows, u) == rows \ RowsOf(rows, u)

\* the table after the write of setVote
Written(rows, u, next) == IF next = 0 THEN Delete(rows, u) ELSE Upsert(rows, u, next)

\* the notification of that write, 0 rows changed: none
Payloads(rows, u, next) ==
    IF next = 0
    THEN IF RowsOf(rows, u) = {} THEN <<>>
         ELSE <<[eventType |-> "DELETE", voter |-> u, value |-> 0]>>
    ELSE <<[eventType |-> IF RowsOf(rows, u) = {} THEN "INSERT" ELSE "UPDATE",
            voter |-> u, value |-> next]>>

\* the row of the entry in the view xp_reaction_summary; without votes the
\* view has no row and the widget reads zeros
xp_reaction_summary(rows) ==
    LET up == Cardinality({r \in rows : r.ledger_id = ledgerId /\ r.value = 1})
        down == Cardinality({r \in rows : r.ledger_id = ledgerId /\ r.value = 0 - 1})
    IN [upvotes |-> up, downvotes |-> down, net |-> up - down]

\* select value from xp_reactions of the voter, maybeSingle; data?.value ?? 0
StoredVote(rows, u) ==
    IF RowsOf(rows, u) = {} THEN 0 ELSE (CHOOSE r \in RowsOf(rows, u) : TRUE).value

\* ---- the widget ----------------------------------------------------------------

\* variant of withinClientRate that keeps no time
KeepNone(w) == SelectSeq(changesRef[w], LAMBDA t : FALSE)

\* withinClientRate: the times kept
Keep(w) == SelectSeq(changesRef[w], LAMBDA t : clock - t < RateWindow)

Max0(n) == IF n < 0 THEN 0 ELSE n

\* variant of applyOptimistic without Math.max(0, ...)
applyOptimisticNoFloor(curr, next, prev) ==
    LET up1 == IF prev = 1 THEN curr.upvotes - 1 ELSE curr.upvotes
        down1 == IF prev = 0 - 1 THEN curr.downvotes - 1 ELSE curr.downvotes
        up2 == IF next = 1 THEN up1 + 1 ELSE up1
        down2 == IF next = 0 - 1 THEN down1 + 1 ELSE down1
    IN [upvotes |-> up2, downvotes |-> down2, net |-> up2 - down2]

\* variant of applyOptimistic that leaves net as it was
applyOptimisticStaleNet(curr, next, prev) ==
    LET up1 == IF prev = 1 THEN Max0(curr.upvotes - 1) ELSE curr.upvotes
        down1 == IF prev = 0 - 1 THEN Max0(curr.downvotes - 1) ELSE curr.downvotes
        up2 == IF next = 1 THEN up1 + 1 ELSE up1
        down2 == IF next = 0 - 1 THEN down1 + 1 ELSE down1
    IN [upvotes |-> up2, downvotes |-> down2, net |-> curr.net]

\* variant of applyOptimistic that does not take the previous vote back
applyOptimisticNoUndo(curr, next, prev) ==
    LET up2 == IF next = 1 THEN curr.upvotes + 1 ELSE curr.upvotes
        down2 == IF next = 0 - 1 THEN curr.downvotes + 1 ELSE curr.downvotes
    IN [upvotes |-> up2, downvotes |-> down2, net |-> up2 - down2]

\* applyOptimistic: the summary setSum computes from the current one
applyOptimistic(curr, next, prev) ==
    LET up1 == IF prev = 1 THEN Max0(curr.upvotes - 1) ELSE curr.upvotes
        down1 == IF prev = 0 - 1 THEN Max0(curr.downvotes - 1) ELSE curr.downvotes
        up2 == IF next = 1 THEN up1 + 1 ELSE up1
        down2 == IF next = 0 - 1 THEN down1 + 1 ELSE down1
    IN [upvotes |-> up2, downvotes |-> down2, net |-> up2 - down2]

\* time passes
ClockTick ==
    /\ \E t \in ClockValues : t > clock /\ clock' = t
    /\ UNCHANGED <<xp_reactions, userId, myVote, sum, busy, changesRef, vote, channel,
                   sumReq, sumResp, voteReq, voteResp, accepted, dropped, floored, clicks, faults, notReact>>

\* supabase.auth.getUser() answers: setUserId; the effect on fetchMyVote runs
GetUser(w, u) ==
    /\ userId[w] = "null"
    /\ userId' = [userId EXCEPT ![w] = u]
    /\ voteReq' = [voteReq EXCEPT ![w] = @ + 1]
    /\ UNCHANGED <<clock, xp_reactions, myVote, sum, busy, changesRef, vote, channel,
                   sumReq, sumResp, voteResp, accepted, dropped, floored, clicks, faults, notReact>>

\* A select reads the table at some moment between its call and the arrival
\* of its answer.  Only a write changes what it reads, so the moment is
\* modelled as one of two: just before a write (Overtaken, the answer is then
\* on its way with what it read), or the arrival.

\* fetchSummary gets an error: nothing is set
SummaryFailed(w) ==
    /\ faults > 0
    /\ faults' = faults - 1
    /\ sumReq[w] > 0
    /\ sumReq' = [sumReq EXCEPT ![w] = @ - 1]
    /\ UNCHANGED <<clock, xp_reactions, userId, myVote, sum, busy, changesRef, vote,
                   channel, sumResp, voteReq, voteResp, accepted, dropped, floored, clicks, notReact>>

\* fetchSummary gets the data read just now: setSum
SummaryArrives(w) ==
    /\ sumReq[w] > 0
    /\ sumReq' = [sumReq EXCEPT ![w] = @ - 1]
    /\ sum' = [sum EXCEPT ![w] = xp_reaction_summary(xp_reactions)]
    /\ UNCHANGED <<clock, xp_reactions, userId, myVote, busy, changesRef, vote, channel,
                   sumResp, voteReq, voteResp, accepted, dropped, floored, clicks, faults, notReact>>

\* fetchSummary gets data read before a later write: setSum
SummaryArrivesLate(w) ==
    /\ \E data \in sumResp[w] :
          /\ sumResp' = [sumResp EXCEPT ![w] = @ \ {data}]
          /\ sum' = [sum EXCEPT ![w] = data]
    /\ UNCHANGED <<clock, xp_reactions, userId, myVote, busy, changesRef, vote, channel,
                   sumReq, voteReq, voteResp, accepted, dropped, floored, clicks, faults, notReact>>

\* fetchMyVote gets an error: data is null, setMyVote(0)
MyVoteFailed(w) ==
    /\ faults > 0
    /\ faults' = faults - 1
    /\ voteReq[w] > 0
    /\ voteReq' = [voteReq EXCEPT ![w] = @ - 1]
    /\ myVote' = [myVote EXCEPT ![w] = 0]
    /\ UNCHANGED <<clock, xp_reactions, userId, sum, busy, changesRef, vote, channel,
                   sumReq, sumResp, voteResp, accepted, dropped, floored, clicks, notReact>>

\* fetchMyVote gets the data read just now: setMyVote(data?.value ?? 0)
MyVoteArrives(w) ==
    /\ voteReq[w] > 0
    /\ voteReq' = [voteReq EXCEPT ![w] = @ - 1]
    /\ myVote' = [myVote EXCEPT ![w] = StoredVote(xp_reactions, userId[w])]
    /\ UNCHANGED <<clock, xp_reactions, userId, sum, busy, changesRef, vote, channel,
                   sumReq, sumResp, voteResp, accepted, dropped, floored, clicks, faults, notReact>>

\* fetchMyVote gets data read before a later write: setMyVote
MyVoteArrivesLate(w) ==
    /\ \E v \in voteResp[w] :
          /\ voteResp' = [voteResp EXCEPT ![w] = @ \ {v}]
          /\ myVote' = [myVote EXCEPT ![w] = v]
    /\ UNCHANGED <<clock, xp_reactions, userId, sum, busy, changesRef, vote, channel,
                   sumReq, sumResp, voteReq, accepted, dropped, floored, clicks, faults, notReact>>

\* the selects a write overtakes: ks[x] summary requests and js[x] own-vote
\* requests of widget x have read the table before the write
Overtaken(ks, js) ==
    /\ \A x \in Widgets : ks[x] <= sumReq[x] /\ js[x] <= voteReq[x]
    /\ sumReq' = [x \in Widgets |-> sumReq[x] - ks[x]]
    /\ sumResp' = [x \in Widgets |->
                     IF ks[x] = 0 THEN sumResp[x]
                     ELSE sumResp[x] \cup {xp_reaction_summary(xp_reactions)}]
    /\ voteReq' = [x \in Widgets |-> voteReq[x] - js[x]]
    /\ voteResp' = [x \in Widgets |->
                      IF js[x] = 0 THEN voteResp[x]
                      ELSE voteResp[x] \cup {StoredVote(xp_reactions, userId[x])}]

\* the realtime callback: fetchSummary(), and the own vote follows a change
\* of the own row
Notified(w) ==
    /\ channel[w] # <<>>
    /\ LET payload == Head(channel[w])
       IN myVote' = [myVote EXCEPT ![w] =
                        IF payload.voter # userId[w] THEN @
                        ELSE IF payload.eventType = "DELETE" THEN 0
                        ELSE payload.value]
    /\ channel' = [channel EXCEPT ![w] = Tail(@)]
    /\ sumReq' = [sumReq EXCEPT ![w] = @ + 1]
    /\ UNCHANGED <<clock, xp_reactions, userId, sum, busy, changesRef, vote, sumResp,
                   voteReq, voteResp, accepted, dropped, floored, clicks, faults, notReact>>

\* setVote(value), accepted: markChange, applyOptimistic, the write is sent
SetVote(w, value) ==
    /\ userId[w] # "null"
    /\ Len(Keep(w)) < RateMax
    /\ ~busy[w]
    /\ clicks > 0
    /\ clicks' = clicks - 1
    /\ LET prev == myVote[w]
           next == IF prev = value THEN 0 ELSE value
       IN /\ myVote' = [myVote EXCEPT ![w] = next]
          /\ sum' = [sum EXCEPT ![w] = applyOptimistic(@, next, prev)]
          /\ vote' = [vote EXCEPT ![w] = [pc |-> "write", next |-> next]]
    /\ busy' = [busy EXCEPT ![w] = TRUE]
    /\ changesRef' = [changesRef EXCEPT ![w] = Append(Keep(w), clock)]
    /\ accepted' = [accepted EXCEPT ![w] = Append(@, clock)]
    /\ floored' = (\/ floored
                   \/ myVote[w] = 1 /\ sum[w].upvotes = 0
                   \/ myVote[w] = 0 - 1 /\ sum[w].downvotes = 0)
    /\ UNCHANGED <<clock, xp_reactions, userId, channel, sumReq, sumResp, voteReq,
                   voteResp, dropped, faults, notReact>>

\* variant of the returns of setVote that marks the change before it returns
SetVoteDroppedCounted(w, value) ==
    /\ clicks > 0
    /\ userId[w] = "null" \/ Len(Keep(w)) >= RateMax \/ busy[w]
    /\ clicks' = clicks - 1
    /\ dropped' = dropped + 1
    /\ changesRef' = [changesRef EXCEPT ![w] = Append(Keep(w), clock)]
    /\ UNCHANGED <<clock, xp_reactions, userId, myVote, sum, busy, vote, channel, sumReq,
                   sumResp, voteReq, voteResp, accepted, floored, faults, notReact>>

\* setVote(value) returns early: nobody is signed in (alert), or
\* withinClientRate() has dropped the old times and says no, or busy
SetVoteDropped(w, value) ==
    /\ clicks > 0
    /\ userId[w] = "null" \/ Len(Keep(w)) >= RateMax \/ busy[w]
    /\ clicks' = clicks - 1
    /\ dropped' = dropped + 1
    /\ changesRef' = [changesRef EXCEPT ![w] = IF userId[w] = "null" THEN @ ELSE Keep(w)]
    /\ UNCHANGED <<clock, xp_reactions, userId, myVote, sum, busy, vote, channel, sumReq,
                   sumResp, voteReq, voteResp, accepted, floored, faults, notReact>>

\* the write is applied; every widget of the entry is notified; finally
WriteOk(w) ==
    /\ vote[w].pc = "write"
    /\ LET msgs == Payloads(xp_reactions, userId[w], vote[w].next)
       IN channel' = [x \in Widgets |-> channel[x] \o msgs]
    /\ xp_reactions' = Written(xp_reactions, userId[w], vote[w].next)
    /\ LET most == sumReq["w1"] + sumReq["w2"] + voteReq["w1"] + voteReq["w2"]
       IN \E ks \in [Widgets -> 0..most], js \in [Widgets -> 0..most] :
             /\ Written(xp_reactions, userId[w], vote[w].next) = xp_reactions
                    => \A x \in Widgets : ks[x] = 0 /\ js[x] = 0
             /\ \A x \in Widgets : userId[x] # userId[w] => js[x] = 0
             /\ Overtaken(ks, js)
    /\ vote' = [vote EXCEPT ![w] = VoteIdle]
    /\ busy' = [busy EXCEPT ![w] = FALSE]
    /\ UNCHANGED <<clock, userId, myVote, sum, changesRef, accepted, dropped, floored, clicks, faults,
                   notReact>>

\* the write resolves with {error}: the result is not looked at; finally
WriteError(w) ==
    /\ faults > 0
    /\ faults' = faults - 1
    /\ vote[w].pc = "write"
    /\ vote' = [vote EXCEPT ![w] = VoteIdle]
    /\ busy' = [busy EXCEPT ![w] = FALSE]
    /\ UNCHANGED <<clock, xp_reactions, userId, myVote, sum, changesRef, channel, sumReq,
                   sumResp, voteReq, voteResp, accepted, dropped, floored, clicks, notReact>>

\* the write rejects: the catch block awaits fetchSummary and fetchMyVote
WriteThrows(w) ==
    /\ faults > 0
    /\ faults' = faults - 1
    /\ vote[w].pc = "write"
    /\ vote' = [vote EXCEPT ![w].pc = "catch"]
    /\ UNCHANGED <<clock, xp_reactions, userId, myVote, sum, busy, changesRef, channel,
                   sumReq, sumResp, voteReq, voteResp, accepted, dropped, floored, clicks, notReact>>

\* the two fetches of the catch block have answered; finally
Refetched(w) ==
    /\ vote[w].pc = "catch"
    /\ sum' = [sum EXCEPT ![w] = xp_reaction_summary(xp_reactions)]
    /\ myVote' = [myVote EXCEPT ![w] = StoredVote(xp_reactions, userId[w])]
    /\ vote' = [vote EXCEPT ![w] = VoteIdle]
    /\ busy' = [busy EXCEPT ![w] = FALSE]
    /\ UNCHANGED <<clock, xp_reactions, userId, changesRef, channel, sumReq, sumResp,
                   voteReq, voteResp, accepted, dropped, floored, clicks, faults, notReact>>

\* the two fetches of the catch block fail as the write did; finally
RefetchFailed(w) ==
    /\ vote[w].pc = "catch"
    /\ myVote' = [myVote EXCEPT ![w] = 0]
    /\ vote' = [vote EXCEPT ![w] = VoteIdle]
    /\ busy' = [busy EXCEPT ![w] = FALSE]
    /\ UNCHANGED <<clock, xp_reactions, userId, sum, changesRef, channel, sumReq,
                   sumResp, voteReq, voteResp, accepted, dropped, floored, clicks, faults, notReact>>

\* no widget is mounted
ReactOff ==
    /\ clock = 0
    /\ xp_reactions = {}
    /\ userId = [w \in Widgets |-> "null"]
    /\ myVote = [w \in Widgets |-> 0]
    /\ sum = [w \in Widgets |-> NoVotes]
    /\ busy = [w \in Widgets |-> FALSE]
    /\ changesRef = [w \in Widgets |-> <<>>]
    /\ vote = [w \in Widgets |-> VoteIdle]
    /\ channel = [w \in Widgets |-> <<>>]
    /\ sumReq = [w \in Widgets |-> 0]
    /\ sumResp = [w \in Widgets |-> {}]
    /\ voteReq = [w \in Widgets |-> 0]
    /\ voteResp = [w \in Widgets |-> {}]
    /\ accepted = [w \in Widgets |-> <<>>]
    /\ dropped = 0
    /\ floored = FALSE
    /\ clicks = 0
    /\ faults = 0

\* the widget w1 is mounted, its first fetchSummary is on its way; the user
\* will vote n times
ReactInit(n) ==
    /\ clock = 0
    /\ xp_reactions = {}
    /\ userId = [w \in Widgets |-> "null"]
    /\ myVote = [w \in Widgets |-> 0]
    /\ sum = [w \in Widgets |-> NoVotes]
    /\ busy = [w \in Widgets |-> FALSE]
    /\ changesRef = [w \in Widgets |-> <<>>]
    /\ vote = [w \in Widgets |-> VoteIdle]
    /\ channel = [w \in Widgets |-> <<>>]
    /\ sumReq = [w \in Widgets |-> IF w = "w1" THEN 1 ELSE 0]
    /\ sumResp = [w \in Widgets |-> {}]
    /\ voteReq = [w \in Widgets |-> 0]
    /\ voteResp = [w \in Widgets |-> {}]
    /\ accepted = [w \in Widgets |-> <<>>]
    /\ dropped = 0
    /\ floored = FALSE
    /\ clicks = n
    /\ faults = MaxFaults

\* both widgets are mounted, their users are signed in and the first answers
\* have arrived, nobody has voted yet; the users will vote n times
PairInit(n) ==
    /\ clock = 0
    /\ xp_reactions = {}
    /\ userId \in {f \in [Widgets -> Users] : \A w \in Widgets : f[w] \in WidgetUsers(w)}
    /\ myVote = [w \in Widgets |-> 0]
    /\ sum = [w \in Widgets |-> NoVotes]
    /\ busy = [w \in Widgets |-> FALSE]
    /\ changesRef = [w \in Widgets |-> <<>>]
    /\ vote = [w \in Widgets |-> VoteIdle]
    /\ channel = [w \in Widgets |-> <<>>]
    /\ sumReq = [w \in Widgets |-> 0]
    /\ sumResp = [w \in Widgets |-> {}]
    /\ voteReq = [w \in Widgets |-> 0]
    /\ voteResp = [w \in Widgets |-> {}]
    /\ accepted = [w \in Widgets |-> <<>>]
    /\ dropped = 0
    /\ floored = FALSE
    /\ clicks = n
    /\ faults = MaxFaults

\* ---- properties of Part IV -------------------------------------------------

\* C13: whatever the voters do, from one session or from two, the table
\* holds at most one row per entry and voter, and every row's value is +1
\* or -1.
C13_OneRowPerVoter ==
    /\ \A r1, r2 \in xp_reactions :
          (r1.ledger_id = r2.ledger_id /\ r1.voter_id = r2.voter_id) => r1 = r2
    /\ \A r \in xp_reactions : r.value \in {1, 0 - 1}

\* one voter has voted from both sessions, both writes were applied and the
\* voter's row is there
C13_Witness ==
    /\ userId["w1"] = userId["w2"]
    /\ \A w \in Widgets : Len(accepted[w]) >= 1 /\ vote[w].pc = "idle"
    /\ faults = MaxFaults
    /\ RowsOf(xp_reactions, userId["w1"]) # {}

\* a step in which widget w accepts a vote
Accepts(w) == vote[w].pc = "idle" /\ vote'[w].pc = "write"

\* C14: a vote for v clears the voter's current vote if that is v, and
\* otherwise sets it to v.
C14_SetVoteToggles ==
    [][\A w \in Widgets :
          Accepts(w)
              => LET current == StoredVote(xp_reactions, userId[w])
                 IN IF vote'[w].next = 0
                    THEN current = myVote[w]
                    ELSE current # vote'[w].next]_vars

\* C15: whatever summary a widget shows or is about to receive, its net is
\* upvotes - downvotes.
C15_NetIsUpMinusDown ==
    \A w \in Widgets :
        /\ sum[w].net = sum[w].upvotes - sum[w].downvotes
        /\ \A data \in sumResp[w] : data.net = data.upvotes - data.downvotes

\* a summary was predicted for a vote, and one was set by the re-fetch of the
\* catch block
C15_Witness ==
    /\ vote["w1"].pc = "idle" /\ Len(accepted["w1"]) = 2
    /\ faults = 0
    /\ sum["w1"] = xp_reaction_summary(xp_reactions)
    /\ sum["w1"].downvotes = 1

\* a step in which the failure of widget w's vote write has been handled
FailureHandled(w) ==
    /\ vote[w].pc \in {"write", "catch"}
    /\ vote'[w].pc = "idle"
    /\ faults' < faults \/ vote[w].pc = "catch"

\* C16: once the failure of a vote write has been handled, the widget shows
\* the store's summary and the voter's stored vote, not the prediction.
C16_FailedWriteRefetched ==
    [][\A w \in Widgets :
          FailureHandled(w)
              => /\ sum'[w] = xp_reaction_summary(xp_reactions')
                 /\ myVote'[w] = StoredVote(xp_reactions', userId[w])]_vars

\* C17: of the changes a widget accepts, any three are spread over 2 seconds
\* or more: no 2-second window holds more than 2.
C17_TwoChangesPerWindow ==
    \A w \in Widgets : \A i \in 1..Len(accepted[w]) :
        i + RateMax <= Len(accepted[w])
            => accepted[w][i + RateMax] - accepted[w][i] >= RateWindow

\* two changes were accepted within the window, a third after it, and a
\* fourth would be dropped now
C17_Witness ==
    /\ Len(accepted["w1"]) >= 3
    /\ accepted["w1"][2] - accepted["w1"][1] < RateWindow
    /\ Len(Keep("w1")) >= RateMax
    /\ ~busy["w1"] /\ clicks > 0

\* C18: when the widget shows the store's summary and vote as a vote is
\* accepted, the summary and vote it predicts are those of the store with
\* that write applied.
C18_PredictionFollowsStore ==
    [][\A w \in Widgets :
          (/\ Accepts(w)
           /\ sum[w] = xp_reaction_summary(xp_reactions)
           /\ myVote[w] = StoredVote(xp_reactions, userId[w]))
              => LET after == Written(xp_reactions, userId[w], vote'[w].next)
                 IN /\ sum'[w] = xp_reaction_summary(after)
                    /\ myVote'[w] = StoredVote(after, userId[w])]_vars

\* a flip from +1 to -1 is on its way, predicted as the store will have it
C18_Witness ==
    \E w \in Widgets :
        /\ vote[w].pc = "write" /\ vote[w].next = 0 - 1
        /\ StoredVote(xp_reactions, userId[w]) = 1
        /\ sum[w] = xp_reaction_summary(Written(xp_reactions, userId[w], vote[w].next))
        /\ myVote[w] = 0 - 1

\* the times of the list that fall in the rate window at the moment t
InWindow(times, t) == SelectSeq(times, LAMBDA x : t - x < RateWindow)

\* C29: a call of setVote that is not accepted happens only without a
\* signed-in user, over the rate limit or during a write of the widget, and it
\* changes nothing: the summary and the vote shown stay, no write is sent, the
\* table stays, and the rate window holds the times it held.
C29_DroppedAttemptChangesNothing ==
    [][dropped' # dropped
         => /\ \E w \in Widgets :
                  userId[w] = "null" \/ Len(Keep(w)) >= RateMax \/ busy[w]
            /\ sum' = sum /\ myVote' = myVote
            /\ vote' = vote /\ busy' = busy
            /\ xp_reactions' = xp_reactions /\ channel' = channel
            /\ accepted' = accepted
            /\ \A w \in Widgets :
                  InWindow(changesRef'[w], clock') = InWindow(changesRef[w], clock)]_vars

\* a call was dropped while the write of an accepted vote was on its way
\* and the time of that vote had left the window
C29_Witness ==
    /\ dropped > 0
    /\ busy["w1"] /\ vote["w1"].pc = "write"
    /\ accepted["w1"] # <<>> /\ changesRef["w1"] = <<>>

\* C30: the upvote and downvote counts a widget shows are never negative,
\* also when a vote is cleared or flipped while the counter of the previous
\* vote shows 0.
C30_CountsNeverNegative ==
    \A w \in Widgets : sum[w].upvotes >= 0 /\ sum[w].downvotes >= 0

\* the widget showed its +1 as pressed over an upvote count of 0 (an answer
\* read before its write had arrived late), and the vote was then cleared
C30_Witness ==
    /\ floored
    /\ vote["w1"].pc = "write" /\ vote["w1"].next = 0
    /\ StoredVote(xp_reactions, userId["w1"]) = 1
    /\ sum["w1"].upvotes = 0

\* no write is on its way, and no fetch, answer or notification of the
\* widget w
Settled(w) ==
    /\ \A x \in Widgets : vote[x].pc = "idle" /\ ~busy[x]
    /\ sumReq[w] = 0 /\ sumResp[w] = {}
    /\ voteReq[w] = 0 /\ voteResp[w] = {}
    /\ channel[w] = <<>>

\* C26: once the writes have ended and every fetch and notification of a
\* signed-in widget has been delivered, the widget shows the summary of the
\* table and the vote of its voter's row.
C26_SettledWidgetShowsStore ==
    \A w \in Widgets :
        (userId[w] # "null" /\ Settled(w))
            => /\ sum[w] = xp_reaction_summary(xp_reactions)
               /\ myVote[w] = StoredVote(xp_reactions, userId[w])

(***************************************************************************)
(* Part V -- LeaderboardCard: the pages of the ranking                     *)
(***************************************************************************)

\* the changes of page and limit in a run
MaxFlips == 2

\* the page sizes the card is used with
Limits == {1, 2}

Max(a, b) == IF a >= b THEN a ELSE b
Min(a, b) == IF a <= b THEN a ELSE b

\* Math.max(1, Math.ceil(total / Math.max(1, limit)))
TotalPages(total, limit) == Max(1, (total + Max(1, limit) - 1) \div Max(1, limit))

\* ---- the store ----------------------------------------------------------------

\* the rows of users_xp: one per user of the ledger, xp the sum of the deltas
UsersXpRows ==
    {[user_id |-> xp_ledger[i].user_id, xp |-> users_xp[xp_ledger[i].user_id]] :
        i \in DOMAIN xp_ledger}

\* the orders .order("xp", {ascending: false}) can return the rows in: the
\* query names no second key, rows of equal xp come in any order
Rankings ==
    {r \in [1..Cardinality(UsersXpRows) -> UsersXpRows] :
        /\ \A i, j \in DOMAIN r : i # j => r[i] # r[j]
        /\ \A i, j \in DOMAIN r : i < j => r[i].xp >= r[j].xp}

\* .range(from, to) of the rows in the order r
Slice(r, page, limit) ==
    LET from == (page - 1) * limit
        to == Min(from + limit - 1, Cardinality(DOMAIN r) - 1)
    IN [i \in 1..Max(0, to - from + 1) |-> r[from + i]]

\* ---- the component ------------------------------------------------------------

\* a run of the fetch effect for (page, limit), awaiting the balances
NewRun(page, limit, alive) ==
    [page |-> page, limit |-> limit, alive |-> alive, stage |-> "balances", ids |-> {}]

\* the cleanup of the effect: alive = false in every earlier run
Cleaned(runs) == {[r EXCEPT !.alive = FALSE] : r \in runs}

\* the user presses Prev or Next (enabled while not loading): setPage, then the
\* effect's cleanup and its next run
BoardPage(p) ==
    /\ bmounted /\ ~bloading /\ bflips > 0
    /\ p \in {bpage - 1, bpage + 1}
    /\ p >= 1 /\ p <= TotalPages(btotal, blimit)
    /\ bflips' = bflips - 1
    /\ bpage' = p
    /\ breqs' = Cleaned(breqs) \cup {NewRun(p, blimit, TRUE)}
    /\ bloading' = TRUE
    /\ berr' = FALSE
    /\ UNCHANGED <<bmounted, blimit, brows, btotal, bprofiles, notBoard>>

\* the parent passes another limit: the effect runs for (page, limit); when
\* page is then beyond the last page, setPage(tp) and the effect runs again
BoardLimit(l) ==
    /\ bmounted /\ bflips > 0
    /\ l # blimit
    /\ bflips' = bflips - 1
    /\ blimit' = l
    /\ LET tp == TotalPages(btotal, l)
       IN IF bpage > tp
          THEN /\ bpage' = tp
               /\ breqs' = Cleaned(breqs) \cup {NewRun(bpage, l, FALSE), NewRun(tp, l, TRUE)}
          ELSE /\ bpage' = bpage
               /\ breqs' = Cleaned(breqs) \cup {NewRun(bpage, l, TRUE)}
    /\ bloading' = TRUE
    /\ berr' = FALSE
    /\ UNCHANGED <<bmounted, brows, btotal, bprofiles, notBoard>>

\* the card is unmounted: the cleanup runs, the state is shown no more
BoardUnmount ==
    /\ bmounted
    /\ bmounted' = FALSE
    /\ breqs' = Cleaned(breqs)
    /\ UNCHANGED <<blimit, bpage, brows, btotal, bprofiles, berr, bloading, bflips, notBoard>>

\* the balances of a run arrive without error: `if (!alive) return`, else
\* setRows, setTotal, and the profiles are asked for or emptied; the effect
\* that keeps page in range follows
BalancesOk(r) ==
    /\ r \in breqs /\ r.stage = "balances"
    /\ IF ~r.alive
       THEN /\ breqs' = breqs \ {r}
            /\ UNCHANGED <<bpage, brows, btotal, bprofiles, berr, bloading>>
       ELSE \E rk \in Rankings :
              LET pageRows == Slice(rk, r.page, r.limit)
                  count == Cardinality(UsersXpRows)
                  ids == {pageRows[i].user_id : i \in DOMAIN pageRows}
                  tp == TotalPages(count, blimit)
                  asks == IF ids = {} THEN {}
                          ELSE {[r EXCEPT !.stage = "profiles", !.ids = ids,
                                          !.alive = bpage <= tp]}
              IN /\ brows' = pageRows
                 /\ btotal' = count
                 /\ bprofiles' = IF ids = {} THEN {} ELSE bprofiles
                 /\ IF bpage > tp
                    THEN /\ bpage' = tp
                         /\ breqs' = (breqs \ {r}) \cup asks \cup {NewRun(tp, blimit, TRUE)}
                         /\ bloading' = TRUE
                         /\ berr' = FALSE
                    ELSE /\ bpage' = bpage
                         /\ breqs' = (breqs \ {r}) \cup asks
                         /\ bloading' = IF ids = {} THEN FALSE ELSE bloading
                         /\ berr' = berr
    /\ UNCHANGED <<bmounted, blimit, bflips, notBoard>>

\* the balances of a run arrive with an error: `if (e1) throw e1` comes before
\* the look at alive; catch: setErr, setRows([]), setProfiles({})
BalancesErr(r) ==
    /\ r \in breqs /\ r.stage = "balances"
    /\ breqs' = breqs \ {r}
    /\ IF bmounted
       THEN /\ berr' = TRUE
            /\ brows' = <<>>
            /\ bprofiles' = {}
            /\ bloading' = IF r.alive THEN FALSE ELSE bloading
       ELSE UNCHANGED <<berr, brows, bprofiles, bloading>>
    /\ UNCHANGED <<bmounted, blimit, bpage, btotal, bflips, notBoard>>

\* the profiles of a run arrive: setProfiles(map), alive is not looked at
ProfilesOk(r) ==
    /\ r \in breqs /\ r.stage = "profiles"
    /\ breqs' = breqs \ {r}
    /\ IF bmounted
       THEN /\ bprofiles' = r.ids
            /\ bloading' = IF r.alive THEN FALSE ELSE bloading
       ELSE UNCHANGED <<bprofiles, bloading>>
    /\ UNCHANGED <<bmounted, blimit, bpage, brows, btotal, berr, bflips, notBoard>>

\* the profiles of a run arrive with an error: setProfiles({})
ProfilesErr(r) ==
    /\ r \in breqs /\ r.stage = "profiles"
    /\ breqs' = breqs \ {r}
    /\ IF bmounted
       THEN /\ bprofiles' = {}
            /\ bloading' = IF r.alive THEN FALSE ELSE bloading
       ELSE UNCHANGED <<bprofiles, bloading>>
    /\ UNCHANGED <<bmounted, blimit, bpage, brows, btotal, berr, bflips, notBoard>>

\* the runs there can be
BoardRuns ==
    [page : 1..2, limit : Limits, alive : BOOLEAN, stage : {"balances", "profiles"},
     ids : SUBSET Users]

\* no card is mounted
BoardOff ==
    /\ bmounted = FALSE
    /\ blimit = 1
    /\ bpage = 1
    /\ brows = <<>>
    /\ btotal = 0
    /\ bprofiles = {}
    /\ berr = FALSE
    /\ bloading = FALSE
    /\ breqs = {}
    /\ bflips = 0

\* the card is mounted with some limit; the first run of the effect is on
\* its way
BoardInit ==
    /\ bmounted = TRUE
    /\ blimit \in Limits
    /\ bpage = 1
    /\ brows = <<>>
    /\ btotal = 0
    /\ bprofiles = {}
    /\ berr = FALSE
    /\ bloading = TRUE
    /\ breqs = {NewRun(1, blimit, TRUE)}
    /\ bflips = MaxFlips

\* the tables when the card is mounted: the tasks of the ledger's order are
\* completed, each with what it was worth; nothing is written while the card
\* is looked at
BoardStoreInit ==
    /\ now = 0
    /\ \E worth \in [TaskIds -> {7, 40}], order \in {<<"t1">>, <<"t1", "t2">>, <<"t2", "t1">>} :
          /\ tasks = [t \in TaskIds |->
                        [owner_id |-> TaskOwner[t], due_at |-> TaskDue[t],
                         xp_assigned |-> worth[t],
                         status |-> IF \E i \in DOMAIN order : order[i] = t
                                    THEN "completed" ELSE "open"]]
          /\ xp_ledger = [i \in DOMAIN order |->
                            CompletionEntry(TaskOwner[order[i]], order[i], worth[order[i]])]
          /\ users_xp = Credit([u \in Users |-> 0],
                               [i \in DOMAIN order |->
                                  CompletionEntry(TaskOwner[order[i]], order[i],
                                                  worth[order[i]])])
    /\ session = [s \in Sessions |-> "null"]
    /\ loadpc = [s \in Sessions |-> "idle"]
    /\ uiTasks = [s \in Sessions |-> [t \in TaskIds |-> "none"]]
    /\ error = [s \in Sessions |-> "null"]
    /\ attempt = [s \in Sessions |-> [t \in TaskIds |-> Idle]]
    /\ proofs = {}

\* ---- properties of Part V --------------------------------------------------

\* the first ledger entry of the user
Earliest(u) ==
    CHOOSE i \in DOMAIN xp_ledger :
        /\ xp_ledger[i].user_id = u
        /\ \A j \in 1..(i - 1) : xp_ledger[j].user_id # u

\* the ranking by balance, users of equal balance by their earliest entry
CanonicalRanking ==
    CHOOSE r \in Rankings :
        \A i, j \in DOMAIN r :
            (i < j /\ r[i].xp = r[j].xp) => Earliest(r[i].user_id) < Earliest(r[j].user_id)

\* C22: the rows a page request brings are in non-increasing balance order,
\* users of equal balance by the insertion order of their earliest ledger
\* entry: with no new ledger entry, every answer is a page of one and the
\* same ranking.
C22_RankingDeterministic ==
    brows # <<>>
        => /\ \A i, j \in DOMAIN brows : i < j => brows[i].xp >= brows[j].xp
           /\ \E p \in 1..2, l \in Limits : brows = Slice(CanonicalRanking, p, l)

\* C28: the answer to a run of the fetch effect that was superseded (page or
\* limit changed, or the card unmounted) changes none of rows, total,
\* profiles and err, whether it is data or an error.
C28_SupersededAnswerIgnored ==
    [][\A r \in breqs :
          (~r.alive /\ r \notin breqs')
              => /\ brows' = brows /\ btotal' = btotal
                 /\ bprofiles' = bprofiles /\ berr' = berr]_vars

(***************************************************************************)
(* Part VI -- RecentActivity: the pages of the feed                        *)
(***************************************************************************)

\* the ledger rows inserted in a run
MaxInserts == 1

PAGE_SIZE == 3

\* the rows the view has when the feed is mounted: two pages
RecentStart == PAGE_SIZE + 1

\* .order("created_at", {ascending: false}).range(from, to) over n rows: the
\* rows of page p, newest first, by their number
PageItems(n, p) ==
    LET from == (p - 1) * PAGE_SIZE
        to == Min(from + PAGE_SIZE - 1, n - 1)
    IN [i \in 1..Max(0, to - from + 1) |-> n - from - i + 1]

\* a call of fetchPage(p) that awaits its answer
Fetch(p) == [p |-> p, served |-> FALSE, items |-> <<>>, count |-> 0]

RemoveAt(seq, i) == SubSeq(seq, 1, i - 1) \o SubSeq(seq, i + 1, Len(seq))

\* a row is inserted into xp_ledger; the feed will be notified
RecentInsert ==
    /\ rledger < RecentStart + MaxInserts
    /\ rledger' = rledger + 1
    /\ rchannel' = rchannel + 1
    /\ UNCHANGED <<rpage, ritems, rtotal, rerror, rloading, rreqs, rflips, notRecent>>

\* the realtime callback: setPage(1); fetchPage(1); and the page effect calls
\* fetchPage(1) once more when the page was another
RecentNotified ==
    /\ rchannel > 0
    /\ rchannel' = rchannel - 1
    /\ rpage' = 1
    /\ rreqs' = IF rpage = 1 THEN Append(rreqs, Fetch(1))
                ELSE Append(Append(rreqs, Fetch(1)), Fetch(1))
    /\ rerror' = FALSE
    /\ rloading' = TRUE
    /\ UNCHANGED <<rledger, ritems, rtotal, rflips, notRecent>>

\* the user presses Prev or Next: setPage, the page effect calls fetchPage
RecentPage(p) ==
    /\ rflips > 0
    /\ p \in {rpage - 1, rpage + 1}
    /\ p >= 1 /\ p <= TotalPages(rtotal, PAGE_SIZE)
    /\ rflips' = rflips - 1
    /\ rpage' = p
    /\ rreqs' = Append(rreqs, Fetch(p))
    /\ rerror' = FALSE
    /\ rloading' = TRUE
    /\ UNCHANGED <<rledger, ritems, rtotal, rchannel, notRecent>>

\* the store runs the select of a call
RecentServe(i) ==
    /\ i \in DOMAIN rreqs /\ ~rreqs[i].served
    /\ rreqs' = [rreqs EXCEPT ![i] = [p |-> @.p, served |-> TRUE,
                                       items |-> PageItems(rledger, @.p),
                                       count |-> rledger]]
    /\ UNCHANGED <<rledger, rpage, ritems, rtotal, rerror, rloading, rchannel, rflips,
                   notRecent>>

\* the answer of a call arrives: setItems, setTotal, setLoading(false); the
\* effect that keeps page in range follows
RecentArrives(i) ==
    /\ i \in DOMAIN rreqs /\ rreqs[i].served
    /\ ritems' = rreqs[i].items
    /\ rtotal' = rreqs[i].count
    /\ LET tp == TotalPages(rreqs[i].count, PAGE_SIZE)
       IN IF rpage > tp
          THEN /\ rpage' = tp
               /\ rreqs' = Append(RemoveAt(rreqs, i), Fetch(tp))
               /\ rerror' = FALSE
               /\ rloading' = TRUE
          ELSE /\ rpage' = rpage
               /\ rreqs' = RemoveAt(rreqs, i)
               /\ rerror' = rerror
               /\ rloading' = FALSE
    /\ UNCHANGED <<rledger, rchannel, rflips, notRecent>>

\* a call gets an error: setError, setItems([]), setTotal(0),
\* setLoading(false); total 0 brings the page back to 1
RecentFails(i) ==
    /\ i \in DOMAIN rreqs
    /\ ritems' = <<>>
    /\ rtotal' = 0
    /\ IF rpage > 1
       THEN /\ rpage' = 1
            /\ rreqs' = Append(RemoveAt(rreqs, i), Fetch(1))
            /\ rerror' = FALSE
            /\ rloading' = TRUE
       ELSE /\ rpage' = rpage
            /\ rreqs' = RemoveAt(rreqs, i)
            /\ rerror' = TRUE
            /\ rloading' = FALSE
    /\ UNCHANGED <<rledger, rchannel, rflips, notRecent>>

\* no feed is mounted
RecentOff ==
    /\ rledger = 0
    /\ rpage = 1
    /\ ritems = <<>>
    /\ rtotal = 0
    /\ rerror = FALSE
    /\ rloading = FALSE
    /\ rreqs = <<>>
    /\ rchannel = 0
    /\ rflips = 0

\* the feed is mounted over two pages of rows; fetchPage(1) of the first
\* effect is on its way
RecentInit ==
    /\ rledger = RecentStart
    /\ rpage = 1
    /\ ritems = <<>>
    /\ rtotal = 0
    /\ rerror = FALSE
    /\ rloading = TRUE
    /\ rreqs = <<Fetch(1)>>
    /\ rchannel = 0
    /\ rflips = MaxFlips

\* ---- properties of Part VI -------------------------------------------------

\* C27: once every call of fetchPage has been answered and every
\* notification handled, the items shown are those of the page shown, for
\* some number of rows the view has had.
C27_SettledFeedShowsPage ==
    (rreqs = <<>> /\ rchannel = 0 /\ ~rerror)
        => \E n \in RecentStart..rledger : ritems = PageItems(n, rpage)

\* ---- specifications -------------------------------------------------------

Init == TaskInit /\ ScoreOff /\ CreateOff /\ ReactOff /\ BoardOff /\ RecentOff
Spec == Init /\ [][Next]_vars

InitAssign == TaskInit /\ AssignInit /\ CreateOff /\ ReactOff /\ BoardOff /\ RecentOff
NextAssign == ServeMissingTitle \/ ServeThrow \/ ServeScored
SpecAssign == InitAssign /\ [][NextAssign]_vars

\* the overdue check of the sessions over tasks the signed build scored
InitMiss == MissInit /\ ScoreOff /\ CreateOff /\ ReactOff /\ BoardOff /\ RecentOff
NextMiss ==
    \/ Tick
    \/ \E s \in Sessions, u \in Users : GetSession(s, u)
    \/ \E s \in Sessions : LoadPenalizeOk(s)
    \/ \E s \in Sessions : LoadPenalizeErr(s)
    \/ \E s \in Sessions : LoadSelectOk(s)
    \/ \E s \in Sessions : LoadSelectErr(s)
    \/ \E s \in Sessions : Reload(s)
SpecMiss == InitMiss /\ [][NextMiss]_vars

InitXP == TaskInit /\ XPInit /\ CreateOff /\ ReactOff /\ BoardOff /\ RecentOff
NextXP == CallComputeXP
SpecXP == InitXP /\ [][NextXP]_vars

InitCreate == TaskInit /\ ScoreOff /\ CreateInit /\ ReactOff /\ BoardOff /\ RecentOff
NextCreate ==
    \/ \E title \in Titles : Submit(title)
    \/ \E r \in ScoreReplies \cup {NoResponse} : InvokeErr(r)
    \/ \E r \in ScoreReplies \cup {NoResponse} : InvokeOk(r)
    \/ InsertOk
    \/ InsertErr
SpecCreate == InitCreate /\ [][NextCreate]_vars

\* one widget from its construction on, within one rate window
InitReact == TaskInit /\ ScoreOff /\ CreateOff /\ ReactInit(MaxVotes) /\ BoardOff /\ RecentOff
NextReact ==
    \/ \E u \in WidgetUsers("w1") : GetUser("w1", u)
    \/ SummaryFailed("w1")
    \/ SummaryArrives("w1")
    \/ SummaryArrivesLate("w1")
    \/ MyVoteFailed("w1")
    \/ MyVoteArrives("w1")
    \/ MyVoteArrivesLate("w1")
    \/ Notified("w1")
    \/ \E value \in {1, 0 - 1} : SetVote("w1", value)
    \/ WriteOk("w1")
    \/ WriteError("w1")
    \/ WriteThrows("w1")
    \/ Refetched("w1")
    \/ RefetchFailed("w1")
SpecReact == InitReact /\ [][NextReact]_vars

\* one widget as time passes; the notifications and the answers of the selects
\* are still on their way
InitRate == TaskInit /\ ScoreOff /\ CreateOff /\ ReactInit(MaxVotes + 2) /\ BoardOff /\ RecentOff
NextRate ==
    \/ ClockTick
    \/ \E u \in WidgetUsers("w1") : GetUser("w1", u)
    \/ \E value \in {1, 0 - 1} : SetVote("w1", value)
    \/ \E value \in {1, 0 - 1} : SetVoteDropped("w1", value)
    \/ WriteOk("w1")
    \/ WriteError("w1")
    \/ WriteThrows("w1")
    \/ Refetched("w1")
    \/ RefetchFailed("w1")
SpecRate == InitRate /\ [][NextRate]_vars

\* two widgets of the entry, of one voter or of two, within one rate window
InitPair == TaskInit /\ ScoreOff /\ CreateOff /\ PairInit(MaxVotes) /\ BoardOff /\ RecentOff
NextPair ==
    \/ \E w \in Widgets : Notified(w)
    \/ \E w \in Widgets : SummaryArrives(w)
    \/ \E w \in Widgets : SummaryArrivesLate(w)
    \/ \E w \in Widgets, value \in {1, 0 - 1} : SetVote(w, value)
    \/ \E w \in Widgets : WriteOk(w)
    \/ \E w \in Widgets : WriteError(w)
SpecPair == InitPair /\ [][NextPair]_vars

\* the card over a ledger that does not change
InitBoard == BoardStoreInit /\ ScoreOff /\ CreateOff /\ ReactOff /\ BoardInit /\ RecentOff
NextBoard ==
    \/ \E p \in 1..2 : BoardPage(p)
    \/ \E l \in Limits : BoardLimit(l)
    \/ BoardUnmount
    \/ \E r \in BoardRuns : BalancesOk(r)
    \/ \E r \in BoardRuns : BalancesErr(r)
    \/ \E r \in BoardRuns : ProfilesOk(r)
    \/ \E r \in BoardRuns : ProfilesErr(r)
SpecBoard == InitBoard /\ [][NextBoard]_vars

\* the feed while rows are inserted and the user turns pages
InitRecent == TaskInit /\ ScoreOff /\ CreateOff /\ ReactOff /\ BoardOff /\ RecentInit
NextRecent ==
    \/ RecentInsert
    \/ RecentNotified
    \/ \E p \in 1..2 : RecentPage(p)
    \/ \E i \in 1..(2 * MaxInserts + MaxFlips + 2) : RecentServe(i)
    \/ \E i \in 1..(2 * MaxInserts + MaxFlips + 2) : RecentArrives(i)
    \/ \E i \in 1..(2 * MaxInserts + MaxFlips + 2) : RecentFails(i)
SpecRecent == InitRecent /\ [][NextRecent]_vars

====
